---- MODULE Spec2Model ----
(***************************************************************************)
(* TESS-IDA-TOOLS: the incremental IDA -> ECSV transformer                 *)
(* (tess/ida/timeseries.py, tess/ida/dbase/api.py) and the bounded         *)
(* concurrency downloader (tess/ida/download.py).                          *)
(***************************************************************************)
EXTENDS Integers, Sequences, FiniteSets, TLC

VARIABLES
    dbConfigured,   \* DATABASE_FILE is defined (dbase/api.py:46)
    ecsv_t,         \* rows <<filename, hash>> of table ecsv_t
    coords_t,       \* rows <<phot_name, latitude, longitude, height>> of coords_t
    rawFS,          \* IDA base dir: raw file path -> content id, or Missing
    ecsvFS,         \* ECSV base dir: raw file path -> derived table, or Missing
    since,          \* ghost: per file, its latest call while nothing of it changed
    transformed,    \* ghost: per file, tables written from its current bytes
    args,           \* do_ida_range: [since, until, N]
    rangePc,        \* do_ida_range: "loop", "gather", "done" or "raised"
    waves,          \* do_ida_range: the groups whose tasks were created, in order
    task,           \* do_ida_single task of the i-th month: where it stands
    status,         \* the HTTP status the i-th month's GET was answered with
    dirIsDir,       \* <ida_base_dir>/<name> is a directory
    idaFS,          \* <ida_base_dir>/<name>/<name>_<month>.dat, per month
    run,            \* one process run: its command and arguments
    main,           \* the run's main coroutine: where it stands, what it counted
    worker,         \* the to_ecsv_range call (a thread of the pipeline)
    combiner,       \* the to_ecsv_combine call (a thread of the pipeline)
    log,            \* ghost: the do_to_ecsv_single calls of the run, in order
    combFS,         \* per photometer, the combined ECSV file of the run
    phot,           \* ida_photometers / ida_location: the loop over the names
    fetch,          \* pipe_single: the do_ida_single call of the run
    locations,      \* the rows of the locations table file, in table order
    fcall           \* ghost: the last call of a function under check

tvars == <<dbConfigured, ecsv_t, coords_t, rawFS, ecsvFS, since, transformed>>

dvars == <<args, rangePc, waves, task, status, dirIsDir, idaFS>>

pvars == <<run, main, worker, combiner, log, combFS>>

xvars == <<phot, fetch, locations, fcall>>

vars == <<tvars, dvars, pvars, xvars>>

-----------------------------------------------------------------------------
(* Raw monthly files and their contents                                     *)

\* Python's None, as an exception slot or a looked-up name
None == "None"
\* fetchone() on no row
NoRow == <<>>
\* no raw file at a path
Missing == 0
\* no ECSV file at a path
NoPosition == [latitude |-> 0, longitude |-> 0, height |-> 0]
NoFile == [src |-> 0, position |-> NoPosition, columns |-> {}]
NoCall == [op |-> "nocall", outcome |-> "nocall"]

Names == {"stars1"}
TMonths == {"2023-06", "2023-07"}

\* <base>/<name>/<name>_<month>.dat
Paths == [name : Names, month : TMonths]

Digits == <<"0", "1", "2", "3", "4", "5", "6", "7", "8", "9">>

\* str(i) of an int
RECURSIVE str(_)
str(i) ==
    IF i < 0 THEN "-" \o str(0 - i)
    ELSE IF i < 10 THEN Digits[i + 1]
    ELSE str(i \div 10) \o Digits[(i % 10) + 1]

\* The channel counts and column counts the headers of the variant table
\* declare.
HeaderChannels == <<0, 1, 2, 4, 5>>

HeaderCols == <<7, 8, 9, 16, 17, 18>>

\* The zenital angles of the measurement direction they declare.
HeaderZenital == <<0, 10>>

\* One content per declared channel count, column count and zenital angle.
VariantTable ==
    [k \in 1 .. (Len(HeaderChannels) * Len(HeaderCols) * Len(HeaderZenital)) |->
        [digest   |-> "v" \o str(k),
         channels |-> HeaderChannels[((k - 1) \div (Len(HeaderCols) * Len(HeaderZenital))) + 1],
         cols     |-> HeaderCols[(((k - 1) \div Len(HeaderZenital)) % Len(HeaderCols)) + 1],
         zenital  |-> HeaderZenital[((k - 1) % Len(HeaderZenital)) + 1],
         position |-> TRUE,
         rows     |-> TRUE]]

\* The file contents the transformer and the runs draw from.  digest is the
\* md5 of the bytes.
BaseTable ==
    <<[digest |-> "d1", channels |-> 1, cols |-> 8,  zenital |-> 0, position |-> TRUE,  rows |-> TRUE],
      [digest |-> "d2", channels |-> 1, cols |-> 8,  zenital |-> 0, position |-> TRUE,  rows |-> TRUE],
      [digest |-> "d3", channels |-> 1, cols |-> 17, zenital |-> 0, position |-> TRUE,  rows |-> TRUE],
      [digest |-> "d4", channels |-> 1, cols |-> 8,  zenital |-> 0, position |-> FALSE, rows |-> TRUE]>>

Contents == DOMAIN BaseTable

\* Every content of the model, by its number.
ContentTable == BaseTable \o VariantTable

VariantContents == DOMAIN ContentTable \ Contents

\* The position a header with a position gives, and the rows table coords_t
\* may hold.
HeaderPosition == [latitude |-> 41, longitude |-> -4, height |-> 700]

CoordRows == {<<"stars1", 40, -3, 650>>}

\* The longest run of tables written from the same bytes of one file that the
\* model follows.
MaxTransforms == 2

basename(path) == <<path.name, path.month>>

name_month(path) == <<path.name, path.month>>

hash_func(c) == ContentTable[c].digest

-----------------------------------------------------------------------------
(* Auxiliary database (dbase/api.py)                                        *)

RowsOf(filename) == {r \in ecsv_t : r[1] = filename}

\* the stub of an unconfigured database, used although one is configured
aux_table_hashes_lookup_stub(filename) == NoRow

aux_table_hashes_lookup(filename) ==
    IF dbConfigured /\ RowsOf(filename) # {}
    THEN CHOOSE r \in RowsOf(filename) : TRUE
    ELSE NoRow

\* the INSERT done although no database is configured
aux_table_hashes_insert_always(data) == ecsv_t \cup {data}

aux_table_hashes_insert(data) ==
    IF dbConfigured THEN ecsv_t \cup {data} ELSE ecsv_t

\* an UPDATE without its WHERE clause
aux_table_hashes_update_all(data) ==
    IF dbConfigured THEN {<<r[1], data[2]>> : r \in ecsv_t} ELSE ecsv_t

\* an UPDATE that leaves the row of the file alone in the table
aux_table_hashes_update_only(data) ==
    IF dbConfigured THEN {<<data[1], data[2]>>} ELSE ecsv_t

\* an UPDATE written as an INSERT
aux_table_hashes_update_as_insert(data) ==
    IF dbConfigured THEN ecsv_t \cup {data} ELSE ecsv_t

aux_table_hashes_update(data) ==
    IF dbConfigured
    THEN {IF r[1] = data[1] THEN <<r[1], data[2]>> ELSE r : r \in ecsv_t}
    ELSE ecsv_t

CoordsOf(name) == {r \in coords_t : r[1] = name}

aux_table_coords_lookup(name) ==
    IF dbConfigured /\ CoordsOf(name) # {}
    THEN CHOOSE r \in CoordsOf(name) : TRUE
    ELSE NoRow

-----------------------------------------------------------------------------
(* IDA file -> TimeSeries (timeseries.py)                                   *)

FormatErrors == {"AssertionError", "InconsistentTableError"}

\* lines 186-195 with latitude and longitude taken from each other's column
coords_position_swapped(coords) ==
    [latitude |-> coords[3], longitude |-> coords[2], height |-> coords[4]]

\* lines 186-195: the position of the header is the row's
coords_position(coords) ==
    [latitude |-> coords[2], longitude |-> coords[3], height |-> coords[4]]

\* lines 199-208 without "assert header[NUM_CHANNELS] == 4"
header_asserts_any_channels(channels, cols) ==
    IF channels = 1 THEN (IF cols = 8 THEN None ELSE "AssertionError")
    ELSE IF cols # 17 THEN "AssertionError"
    ELSE None

\* lines 199-208: the asserts on the declared channel and column counts
header_asserts(channels, cols) ==
    IF channels = 1 THEN (IF cols = 8 THEN None ELSE "AssertionError")
    ELSE IF channels # 4 THEN "AssertionError"
    ELSE IF cols # 17 THEN "AssertionError"
    ELSE None

\* The header of content c: "ok" with the source of its position, or the
\* exception raised.
ida_metadata(c, name, fix) ==
    LET h == ContentTable[c] IN
    IF ~h.position /\ ~fix THEN [exc |-> "NoCoordinatesError"]
    ELSE IF ~h.position /\ aux_table_coords_lookup(name) = NoRow
         THEN [exc |-> "NoCoordinatesError"]
    ELSE IF header_asserts(h.channels, h.cols) # None THEN [exc |-> "AssertionError"]
    ELSE [exc |-> None,
          position |-> IF h.position THEN HeaderPosition
                       ELSE coords_position(aux_table_coords_lookup(name))]

\* constants.py: the columns of a TESS-W file, the one left out of the table,
\* and the columns add_columns may add
IDA_NAMES ==
    {"time", "Local Date & Time", "Enclosure Temperature", "Sky Temperature",
     "Frequency", "MSAS", "ZP", "Sequence Number"}

IDA_EXCLUDE == {"Local Date & Time"}

SUN_ALT == "Sun Alt"

SUN_AZ == "Sun Az"

MOON_AZ == "Moon Az"

MOON_ALT == "Moon Alt"

MOON_ILLUM == "Moon Illumination"

\* lines 270, 276 with the azimuth columns added whatever the direction
off_zenith_always(zenital) == TRUE

\* lines 270, 276: zenital != 0.0
off_zenith(zenital) == zenital # 0

ida_to_table(c, name, fix) ==
    LET header == ida_metadata(c, name, fix) IN
    IF header.exc # None THEN header
    ELSE IF ~ContentTable[c].rows THEN [exc |-> "InconsistentTableError"]
    ELSE [exc |-> None, src |-> c, position |-> header.position,
          columns |-> IDA_NAMES \ IDA_EXCLUDE]

\* header[AIM]["zenital"] is read as a mapping: the four-channel header holds
\* a list there
add_columns(c, table) ==
    IF ContentTable[c].channels # 1 THEN [exc |-> "TypeError"]
    ELSE [exc |-> None, src |-> table.src, position |-> table.position,
          columns |-> table.columns
                      \cup {SUN_ALT}
                      \cup (IF off_zenith(ContentTable[c].zenital) THEN {SUN_AZ} ELSE {})
                      \cup {MOON_ALT}
                      \cup (IF off_zenith(ContentTable[c].zenital) THEN {MOON_AZ} ELSE {})
                      \cup {MOON_ILLUM}]

create_table(c, name, fix) ==
    LET table == ida_to_table(c, name, fix) IN
    IF table.exc # None THEN table ELSE add_columns(c, table)

\* line 316 without its else branch: every call transforms
MustTransformAlways(data, stored_hash_str, outIsFile) == TRUE

\* line 316 without the comparison of the hashes
MustTransformNoHash(data, stored_hash_str, outIsFile) == ~outIsFile

\* line 316 with the test of the ECSV file turned round
MustTransformIfFile(data, stored_hash_str, outIsFile) ==
    data[2] # stored_hash_str \/ outIsFile

\* line 316: the entry is stale or the ECSV file is gone
MustTransform(data, stored_hash_str, outIsFile) ==
    data[2] # stored_hash_str \/ ~outIsFile

\* One do_to_ecsv_single call on raw file path: what it looked up, the
\* branch it took (op), whether create_table was entered, how it ended, the
\* table rows and the ECSV file it leaves, and (prev) how the call before it on
\* this file ended if nothing of the file changed in between.
ToEcsv(path, fix) ==
    LET c         == rawFS[path]
        nm        == name_month(path)
        data      == <<basename(path), hash_func(c)>>
        result    == aux_table_hashes_lookup(data[1])
        outIsFile == ecsvFS[path] # NoFile
        op        == IF result # NoRow
                     THEN IF MustTransform(data, result[2], outIsFile)
                          THEN "update" ELSE "none"
                     ELSE "insert"
        table     == create_table(c, nm[1], fix)
    IN  [op        |-> op,
         fix       |-> fix,
         data      |-> data,
         result    |-> result,
         outIsFile |-> outIsFile,
         rows      |-> IF op = "update" THEN aux_table_hashes_update(data)
                       ELSE IF op = "insert" THEN aux_table_hashes_insert(data)
                       ELSE ecsv_t,
         created   |-> op # "none",
         outcome   |-> IF op = "none" THEN "skipped"
                       ELSE IF table.exc # None THEN table.exc
                       ELSE "written",
         table     |-> IF op # "none" /\ table.exc = None
                       THEN [src |-> table.src, position |-> table.position,
                             columns |-> table.columns]
                       ELSE ecsvFS[path],
         prev      |-> [op |-> since[path].op, outcome |-> since[path].outcome]]

\* The ghost record kept of a call: everything but the whole table.
Kept(path, call) ==
    [op |-> call.op, fix |-> call.fix, data |-> call.data, result |-> call.result,
     outIsFile |-> call.outIsFile, created |-> call.created,
     outcome |-> call.outcome, prev |-> call.prev,
     before |-> RowsOf(basename(path)),
     after |-> {r \in call.rows : r[1] = basename(path)}]

do_to_ecsv_single(path, fix) ==
    /\ rawFS[path] # Missing
    /\ LET call == ToEcsv(path, fix) IN
       /\ call.outcome = "written" => transformed[path] < MaxTransforms
       /\ ecsv_t' = call.rows
       /\ ecsvFS' = [ecsvFS EXCEPT ![path] = call.table]
       /\ since' = [since EXCEPT ![path] = Kept(path, call)]
       /\ transformed' = [transformed EXCEPT ![path] =
                             IF call.outcome = "written" THEN @ + 1 ELSE @]
    /\ UNCHANGED <<dbConfigured, coords_t, rawFS>>
    /\ UNCHANGED dvars
    /\ UNCHANGED pvars
    /\ UNCHANGED xvars

\* hash_func opens a raw file that is not there
do_to_ecsv_missing(path, fix) ==
    /\ rawFS[path] = Missing
    /\ since[path].outcome # "FileNotFoundError"
    /\ since' = [since EXCEPT ![path] =
                    [op |-> "none", fix |-> fix, data |-> NoRow, result |-> NoRow,
                     outIsFile |-> ecsvFS[path] # NoFile, created |-> FALSE,
                     outcome |-> "FileNotFoundError",
                     prev |-> [op |-> since[path].op, outcome |-> since[path].outcome],
                     before |-> RowsOf(basename(path)),
                     after |-> RowsOf(basename(path))]]
    /\ UNCHANGED <<dbConfigured, ecsv_t, coords_t, rawFS, ecsvFS, transformed>>
    /\ UNCHANGED dvars
    /\ UNCHANGED pvars
    /\ UNCHANGED xvars

-----------------------------------------------------------------------------
(* The environment of the transformer                                       *)

\* A download (or anything else) gives raw file path new bytes.
RawWrite(path, c) ==
    /\ rawFS[path] # c
    /\ rawFS' = [rawFS EXCEPT ![path] = c]
    /\ since' = [since EXCEPT ![path] = NoCall]
    /\ transformed' = [transformed EXCEPT ![path] = 0]
    /\ UNCHANGED <<dbConfigured, ecsv_t, coords_t, ecsvFS>>
    /\ UNCHANGED dvars
    /\ UNCHANGED pvars
    /\ UNCHANGED xvars

\* The operator deletes an ECSV file ("Delete your ECSV files and re-run").
EcsvRemove(path) ==
    /\ ecsvFS[path] # NoFile
    /\ ecsvFS' = [ecsvFS EXCEPT ![path] = NoFile]
    /\ since' = [since EXCEPT ![path] = NoCall]
    /\ UNCHANGED <<dbConfigured, ecsv_t, coords_t, rawFS, transformed>>
    /\ UNCHANGED dvars
    /\ UNCHANGED pvars
    /\ UNCHANGED xvars

\* tess-ida-db schema create: both tables are created empty again.
cli_schema_create ==
    /\ dbConfigured
    /\ ecsv_t # {} \/ coords_t # {}
    /\ ecsv_t' = {}
    /\ coords_t' = {}
    /\ since' = [p \in Paths |-> NoCall]
    /\ UNCHANGED <<dbConfigured, rawFS, ecsvFS, transformed>>
    /\ UNCHANGED dvars
    /\ UNCHANGED pvars
    /\ UNCHANGED xvars

-----------------------------------------------------------------------------
(* Month ranges and groups (utils/utils.py, utils.py)                       *)

\* The longest month range the model downloads.
MaxMonths == 4

\* The largest --concurrent the model runs with.
MaxConcurrent == 4

\* choices of --concurrent
ConcurrentChoices == {1, 2, 4, 6, 8}

\* --since of the runs; --until ranges from the month before it onwards
SinceMonth == [year |-> 2023, month |-> 11]

Min(a, b) == IF a < b THEN a ELSE b

\* datetime + relativedelta(months=1)
relativedelta(d) ==
    IF d.month = 12 THEN [year |-> d.year + 1, month |-> 1]
    ELSE [year |-> d.year, month |-> d.month + 1]

\* datetime - relativedelta(months=1)
PrevMonth(d) ==
    IF d.month = 1 THEN [year |-> d.year - 1, month |-> 12]
    ELSE [year |-> d.year, month |-> d.month - 1]

RECURSIVE PlusMonths(_, _)
PlusMonths(d, k) == IF k = 0 THEN d ELSE PlusMonths(relativedelta(d), k - 1)

\* month <= to_month on datetimes of the first day of a month
DateLeq(a, b) == a.year < b.year \/ (a.year = b.year /\ a.month <= b.month)

\* strftime("%Y-%m"): the text YYYY-MM, held as the number YYYYMM
strftime(d) == d.year * 100 + d.month

RECURSIVE month_range(_, _)
month_range(from_month, to_month) ==
    IF DateLeq(from_month, to_month)
    THEN <<strftime(from_month)>> \o month_range(relativedelta(from_month), to_month)
    ELSE <<>>

islice(iterable, n) == SubSeq(iterable, 1, Min(n, Len(iterable)))

\* a grouping that loses a last, shorter chunk
RECURSIVE group_full_only(_, _)
group_full_only(n, iterable) ==
    IF Len(iterable) < n THEN <<>>
    ELSE <<islice(iterable, n)>>
         \o group_full_only(n, SubSeq(iterable, n + 1, Len(iterable)))

RECURSIVE group(_, _)
group(n, iterable) ==
    LET chunk == islice(iterable, n) IN
    IF chunk = <<>> THEN <<>>
    ELSE <<chunk>> \o group(n, SubSeq(iterable, Len(chunk) + 1, Len(iterable)))

Range(seq) == {seq[i] : i \in DOMAIN seq}

-----------------------------------------------------------------------------
(* Download of a month range (download.py)                                  *)

Statuses == {200, 404, 500}

InFlight == {"get", "text", "mkdir", "open", "write"}

Months == month_range(args.since, args.until)

Groups == group(args.N, Months)

\* the group whose tasks were created last
Grp == IF waves = <<>> THEN {} ELSE Range(waves[Len(waves)])

\* The body a response of status st carries.
Body(st) == IF st = 200 THEN "ida" ELSE "error"

\* a 404 that raises like any other bad status
after_response_404_raises(st) ==
    IF st = 200 THEN "text" ELSE "failed"

\* lines 135-139: where do_ida_single goes on a response of status st
after_response(st) ==
    IF st = 404 THEN "skipped" ELSE "text"

\* a gather that is not awaited
gather_not_awaited(grp) == "returned"

\* a gather called with return_exceptions=True
gather_return_exceptions(grp) ==
    IF \A m \in grp : task[m] \in {"done", "skipped", "failed"} THEN "returned"
    ELSE "pending"

\* line 163: the state of "await asyncio.gather(*tasks)"
gather(grp) ==
    IF \E m \in grp : task[m] = "failed" THEN "raised"
    ELSE IF \A m \in grp : task[m] \in {"done", "skipped"} THEN "returned"
    ELSE "pending"

\* lines 156-162: the tasks of the next group are created
create_tasks ==
    /\ rangePc = "loop"
    /\ Len(waves) < Len(Groups)
    /\ LET grp == Groups[Len(waves) + 1] IN
       /\ waves' = Append(waves, grp)
       /\ task' = [m \in DOMAIN task |-> IF m \in Range(grp) THEN "get" ELSE task[m]]
    /\ rangePc' = "gather"
    /\ UNCHANGED <<args, status, dirIsDir, idaFS>>
    /\ UNCHANGED tvars
    /\ UNCHANGED pvars
    /\ UNCHANGED xvars

\* line 156: the groups are exhausted
range_return ==
    /\ rangePc = "loop"
    /\ Len(waves) = Len(Groups)
    /\ rangePc' = "done"
    /\ UNCHANGED <<args, waves, task, status, dirIsDir, idaFS>>
    /\ UNCHANGED tvars
    /\ UNCHANGED pvars
    /\ UNCHANGED xvars

\* line 163: gather returns the results of the group
gather_return ==
    /\ rangePc = "gather"
    /\ gather(Grp) = "returned"
    /\ rangePc' = "loop"
    /\ UNCHANGED <<args, waves, task, status, dirIsDir, idaFS>>
    /\ UNCHANGED tvars
    /\ UNCHANGED pvars
    /\ UNCHANGED xvars

\* line 163: gather propagates the first exception of the group
gather_raise ==
    /\ rangePc = "gather"
    /\ gather(Grp) = "raised"
    /\ rangePc' = "raised"
    /\ UNCHANGED <<args, waves, task, status, dirIsDir, idaFS>>
    /\ UNCHANGED tvars
    /\ UNCHANGED pvars
    /\ UNCHANGED xvars

\* lines 134-138: the GET of month m is answered with status st
get_response(m, st) ==
    /\ task[m] = "get"
    /\ status' = [status EXCEPT ![m] = st]
    /\ task' = [task EXCEPT ![m] = after_response(st)]
    /\ UNCHANGED <<args, rangePc, waves, dirIsDir, idaFS>>
    /\ UNCHANGED tvars
    /\ UNCHANGED pvars
    /\ UNCHANGED xvars

\* lines 134, 139: the request or the read of the body fails or times out
get_fails(m) ==
    /\ task[m] \in {"get", "text"}
    /\ task' = [task EXCEPT ![m] = "failed"]
    /\ UNCHANGED <<args, rangePc, waves, status, dirIsDir, idaFS>>
    /\ UNCHANGED tvars
    /\ UNCHANGED pvars
    /\ UNCHANGED xvars

\* line 139: the body is read
resp_text(m) ==
    /\ task[m] = "text"
    /\ task' = [task EXCEPT ![m] = "mkdir"]
    /\ UNCHANGED <<args, rangePc, waves, status, dirIsDir, idaFS>>
    /\ UNCHANGED tvars
    /\ UNCHANGED pvars
    /\ UNCHANGED xvars

\* line 140: makedirs in a worker thread
makedirs(m) ==
    /\ task[m] = "mkdir"
    /\ dirIsDir' = TRUE
    /\ task' = [task EXCEPT ![m] = "open"]
    /\ UNCHANGED <<args, rangePc, waves, status, idaFS>>
    /\ UNCHANGED tvars
    /\ UNCHANGED pvars
    /\ UNCHANGED xvars

\* line 142: the file is opened for writing, which creates or empties it
open_file(m) ==
    /\ task[m] = "open"
    /\ idaFS' = [idaFS EXCEPT ![m] = "empty"]
    /\ task' = [task EXCEPT ![m] = "write"]
    /\ UNCHANGED <<args, rangePc, waves, status, dirIsDir>>
    /\ UNCHANGED tvars
    /\ UNCHANGED pvars
    /\ UNCHANGED xvars

\* lines 143-144: the body is written and the file closed
write_file(m) ==
    /\ task[m] = "write"
    /\ idaFS' = [idaFS EXCEPT ![m] = Body(status[m])]
    /\ task' = [task EXCEPT ![m] = "done"]
    /\ UNCHANGED <<args, rangePc, waves, status, dirIsDir>>
    /\ UNCHANGED tvars
    /\ UNCHANGED pvars
    /\ UNCHANGED xvars

\* The exception has left do_ida_range: the session is closed and the event
\* loop, on its way out, cancels the tasks that are still pending.
cancel_pending(m) ==
    /\ rangePc = "raised"
    /\ task[m] \in InFlight
    /\ task' = [task EXCEPT ![m] = "cancelled"]
    /\ UNCHANGED <<args, rangePc, waves, status, dirIsDir, idaFS>>
    /\ UNCHANGED tvars
    /\ UNCHANGED pvars
    /\ UNCHANGED xvars

-----------------------------------------------------------------------------
(* One process run: tess-ida-ecsv range and tess-ida-pipe photometers       *)
(* (timeseries.py, pipeline.py)                                             *)

\* ida_names_by_seq_or_range: "stars" + str(i) in ascending i
RNames == <<"stars1", "stars2">>

\* the months with raw files in the runs, and the values of --since, --until
RFirst == [year |-> 2023, month |-> 6]

RLast == [year |-> 2023, month |-> 7]

RDates == {RFirst, RLast}

RMonths == Range(month_range(RFirst, RLast))

\* <base>/<name>/<name>_<month>.dat and <base>/<name>/<name>_<month>.ecsv
RPaths == [name : Range(RNames), month : RMonths]

\* the contents the raw files of a run draw from: a good file, one that fails
\* an assert of ida_metadata, one without a position
RunContents == {1, 3, 4}

\* an ECSV file left by an earlier run, and where it may lie
OldFile ==
    [src |-> 2, position |-> HeaderPosition,
     columns |-> (IDA_NAMES \ IDA_EXCLUDE) \cup {SUN_ALT, MOON_ALT, MOON_ILLUM}]

OldPath == [name |-> RNames[1], month |-> strftime(RLast)]

RunArgs ==
    [cmd : {"pipe"}, names : {SubSeq(RNames, 1, n) : n \in DOMAIN RNames},
     since : RDates, until : RDates, fix : BOOLEAN, skip : BOOLEAN]
    \cup
    [cmd : {"ecsv"}, names : {SubSeq(RNames, 1, 1)},
     since : RDates, until : RDates, fix : BOOLEAN, skip : {TRUE}]

NoThread == [state |-> "idle", name |-> None, todo |-> <<>>, exc |-> None]

NoCombiner == [state |-> "idle", name |-> None, warned |-> FALSE, exc |-> None]

NoCombined == [combined |-> <<>>, rows |-> <<>>]

\* sorted() in descending order
RECURSIVE sorted_reverse(_)
sorted_reverse(paths) ==
    IF paths = {} THEN <<>>
    ELSE LET last == CHOOSE p \in paths : \A q \in paths : q.month <= p.month
         IN  <<last>> \o sorted_reverse(paths \ {last})

\* sorted(glob.iglob(...)): the paths of one directory in ascending order of
\* their text, which is the order of their months
RECURSIVE sorted(_)
sorted(paths) ==
    IF paths = {} THEN <<>>
    ELSE LET first == CHOOSE p \in paths : \A q \in paths : p.month <= q.month
         IN  <<first>> \o sorted(paths \ {first})

\* "candidate_month in months" that lets every month through
in_months_any(candidate_month, months) == TRUE

\* lines 361, 386: candidate_month in months
in_months(candidate_month, months) == candidate_month \in Range(months)

RECURSIVE candidates(_, _)
candidates(found, months) ==
    IF found = <<>> THEN <<>>
    ELSE (IF in_months(Head(found).month, months) THEN <<Head(found)>> ELSE <<>>)
         \o candidates(Tail(found), months)

\* lines 356-362: the raw files of a photometer with a month of the range
raw_candidate_path(name, since_, until_) ==
    candidates(sorted({p \in DOMAIN rawFS : p.name = name /\ rawFS[p] # Missing}),
               month_range(since_, until_))

\* lines 382-387: the ECSV files of a photometer with a month of the range
ecsv_candidate_path(name, since_, until_) ==
    candidates(sorted({p \in DOMAIN ecsvFS : p.name = name /\ ecsvFS[p] # NoFile}),
               month_range(since_, until_))

\* an await that goes on without its thread having ended
to_thread_not_awaited(state) == TRUE

\* await asyncio.to_thread(...): the thread has returned or raised
to_thread_awaited(state) == state # "running"

\* lines 298-302 (timeseries.py:480-484): where an exception out of
\* args.func leaves the run
except_clause(exc) == IF exc = "NoCoordinatesError" THEN "save" ELSE "crashed"

\* cli_pipeline line 297, cli_to_ecsv line 479: aux_dbase_load, then args.func
aux_dbase_load ==
    /\ main.pc = "load"
    /\ main' = [main EXCEPT !.loads = @ + 1,
                            !.pc = IF run.cmd = "single" THEN "single"
                                   ELSE IF run.cmd = "pipe" /\ ~run.skip
                                   THEN "download" ELSE "range"]
    /\ UNCHANGED <<run, worker, combiner, log, combFS>>
    /\ UNCHANGED tvars
    /\ UNCHANGED dvars
    /\ UNCHANGED xvars

\* pipeline.py:126-127: await download_ida_range(...) of the next photometer
download_begin ==
    /\ main.pc = "download"
    /\ main.i <= Len(run.names)
    /\ main' = [main EXCEPT !.pc = "await_download", !.fetches = @ + 1]
    /\ UNCHANGED <<run, worker, combiner, log, combFS>>
    /\ UNCHANGED tvars
    /\ UNCHANGED dvars
    /\ UNCHANGED xvars

\* pipeline.py:127: download_ida_range has returned
download_return ==
    /\ main.pc = "await_download"
    /\ main' = [main EXCEPT !.pc = "download", !.i = @ + 1]
    /\ UNCHANGED <<run, worker, combiner, log, combFS>>
    /\ UNCHANGED tvars
    /\ UNCHANGED dvars
    /\ UNCHANGED xvars

\* pipeline.py:127: download_ida_range has raised (a timeout, a connection
\* error); no except clause of the run catches it
download_raise ==
    /\ main.pc = "await_download"
    /\ main' = [main EXCEPT !.pc = except_clause("ClientError"),
                            !.exc = "ClientError"]
    /\ UNCHANGED <<run, worker, combiner, log, combFS>>
    /\ UNCHANGED tvars
    /\ UNCHANGED dvars
    /\ UNCHANGED xvars

\* pipeline.py:126: every photometer has been downloaded
download_done ==
    /\ main.pc = "download"
    /\ main.i > Len(run.names)
    /\ main' = [main EXCEPT !.pc = "range", !.i = 1]
    /\ UNCHANGED <<run, worker, combiner, log, combFS>>
    /\ UNCHANGED tvars
    /\ UNCHANGED dvars
    /\ UNCHANGED xvars

\* pipeline.py:129-131: asyncio.to_thread(to_ecsv_range, ...) of the next
\* photometer (timeseries.py:427 calls it directly); lines 355-362 of it
to_thread_range ==
    /\ main.pc = "range"
    /\ main.i <= Len(run.names)
    /\ worker.state = "idle"
    /\ worker' = [state |-> "running", name |-> run.names[main.i],
                  todo |-> raw_candidate_path(run.names[main.i], run.since, run.until),
                  exc |-> None]
    /\ main' = [main EXCEPT !.pc = "await_range"]
    /\ UNCHANGED <<run, combiner, log, combFS>>
    /\ UNCHANGED tvars
    /\ UNCHANGED dvars
    /\ UNCHANGED xvars

\* timeseries.py:363-367: do_to_ecsv_single on the next candidate
range_single ==
    /\ worker.state = "running"
    /\ worker.todo # <<>>
    /\ LET path == Head(worker.todo)
           call == ToEcsv(path, run.fix)
       IN  /\ ecsv_t' = call.rows
           /\ ecsvFS' = [ecsvFS EXCEPT ![path] = call.table]
           /\ since' = [since EXCEPT ![path] = Kept(path, call)]
           /\ transformed' = [transformed EXCEPT ![path] =
                                 IF call.outcome = "written" THEN @ + 1 ELSE @]
           /\ log' = Append(log, [path |-> path, outcome |-> call.outcome,
                                  pc |-> main.pc, combining |-> combiner.state])
           /\ worker' = IF call.outcome \in {"written", "skipped"}
                        THEN [worker EXCEPT !.todo = Tail(@)]
                        ELSE [worker EXCEPT !.state = "raised", !.exc = call.outcome]
    /\ UNCHANGED <<dbConfigured, coords_t, rawFS>>
    /\ UNCHANGED <<run, main, combiner, combFS>>
    /\ UNCHANGED dvars
    /\ UNCHANGED xvars

\* timeseries.py:363: no candidate is left
to_ecsv_range_return ==
    /\ worker.state = "running"
    /\ worker.todo = <<>>
    /\ worker' = [worker EXCEPT !.state = "returned"]
    /\ UNCHANGED <<run, main, combiner, log, combFS>>
    /\ UNCHANGED tvars
    /\ UNCHANGED dvars
    /\ UNCHANGED xvars

\* pipeline.py:129: the await of to_ecsv_range ends
await_range ==
    /\ main.pc = "await_range"
    /\ to_thread_awaited(worker.state)
    /\ main' = IF worker.state = "raised"
               THEN [main EXCEPT !.pc = except_clause(worker.exc), !.exc = worker.exc]
               ELSE [main EXCEPT !.pc = IF run.cmd = "pipe" THEN "combine" ELSE "save"]
    /\ worker' = IF worker.state = "running" THEN worker ELSE NoThread
    /\ UNCHANGED <<run, combiner, log, combFS>>
    /\ UNCHANGED tvars
    /\ UNCHANGED dvars
    /\ UNCHANGED xvars

\* pipeline.py:128: every photometer has been transformed and combined
range_done ==
    /\ main.pc = "range"
    /\ main.i > Len(run.names)
    /\ main' = [main EXCEPT !.pc = "save"]
    /\ UNCHANGED <<run, worker, combiner, log, combFS>>
    /\ UNCHANGED tvars
    /\ UNCHANGED dvars
    /\ UNCHANGED xvars

\* pipeline.py:132-134: asyncio.to_thread(to_ecsv_combine, ...)
to_thread_combine ==
    /\ main.pc = "combine"
    /\ combiner.state = "idle"
    /\ combiner' = [NoCombiner EXCEPT !.state = "running", !.name = run.names[main.i]]
    /\ main' = [main EXCEPT !.pc = "await_combine"]
    /\ UNCHANGED <<run, worker, log, combFS>>
    /\ UNCHANGED tvars
    /\ UNCHANGED dvars
    /\ UNCHANGED xvars

\* timeseries.py:370-407
to_ecsv_combine ==
    /\ combiner.state = "running"
    /\ LET months == month_range(run.since, run.until)
           candidate_path == ecsv_candidate_path(combiner.name, run.since, run.until)
       IN  IF months = <<>>
           THEN /\ combiner' = [combiner EXCEPT !.state = "raised", !.exc = "IndexError"]
                /\ UNCHANGED combFS
           ELSE IF candidate_path = <<>>
           THEN /\ combiner' = [combiner EXCEPT !.state = "returned", !.warned = TRUE]
                /\ UNCHANGED combFS
           ELSE /\ combiner' = [combiner EXCEPT !.state = "returned"]
                /\ combFS' = [combFS EXCEPT ![combiner.name] =
                       [combined |-> [k \in DOMAIN candidate_path |->
                                         basename(candidate_path[k])],
                        rows |-> [k \in DOMAIN candidate_path |->
                                     ecsvFS[candidate_path[k]].src]]]
    /\ UNCHANGED <<run, main, worker, log>>
    /\ UNCHANGED tvars
    /\ UNCHANGED dvars
    /\ UNCHANGED xvars

\* pipeline.py:132: the await of to_ecsv_combine ends
await_combine ==
    /\ main.pc = "await_combine"
    /\ to_thread_awaited(combiner.state)
    /\ main' = IF combiner.state = "raised"
               THEN [main EXCEPT !.pc = except_clause(combiner.exc),
                                 !.exc = combiner.exc]
               ELSE [main EXCEPT !.pc = "range", !.i = @ + 1]
    /\ combiner' = IF combiner.state = "running" THEN combiner
                   ELSE [combiner EXCEPT !.state = "idle"]
    /\ UNCHANGED <<run, worker, log, combFS>>
    /\ UNCHANGED tvars
    /\ UNCHANGED dvars
    /\ UNCHANGED xvars

\* cli_pipeline line 302, cli_to_ecsv line 484
aux_dbase_save ==
    /\ main.pc = "save"
    /\ main' = [main EXCEPT !.saves = @ + 1, !.pc = "done"]
    /\ UNCHANGED <<run, worker, combiner, log, combFS>>
    /\ UNCHANGED tvars
    /\ UNCHANGED dvars
    /\ UNCHANGED xvars

-----------------------------------------------------------------------------
(* Selection of photometers (download.py, utils/parser.py)                  *)

\* The largest photometer number of --list and --range the model draws.
MaxId == 11

\* The longest --list the model draws.
MaxList == 3

\* photometer numbers of --list and --range
Ids == {2, 9, 10, MaxId}

\* an argument left at its default of None, and one that was given
NoArg == [given |-> FALSE]

Arg(v) == [given |-> TRUE, v |-> v]

\* --list: nargs="+" of int
Lists == UNION {[1 .. n -> Ids] : n \in 1 .. MaxList}

\* --range: nargs=2 of int
Ranges == [1 .. 2 -> Ids]

\* sorted() that leaves the numbers as they were given
sorted_as_given(seq) == seq

\* sorted(seq) of a sequence of ints: ascending, equal numbers kept
RECURSIVE sorted_ints(_)
sorted_ints(seq) ==
    IF seq = <<>> THEN <<>>
    ELSE LET k == CHOOSE k \in DOMAIN seq : \A j \in DOMAIN seq : seq[k] <= seq[j]
         IN  <<seq[k]>>
             \o sorted_ints([j \in 1 .. (Len(seq) - 1) |->
                                IF j < k THEN seq[j] ELSE seq[j + 1]])

\* range(start, stop)
range(start, stop) ==
    IF stop <= start THEN <<>> ELSE [k \in 1 .. (stop - start) |-> start + k - 1]

\* lines 183-189
ida_names_by_seq_or_range(seq, rang) ==
    IF seq.given
    THEN LET ids == sorted_ints(seq.v)
         IN  [k \in DOMAIN ids |-> "stars" \o str(ids[k])]
    ELSE LET r   == sorted_ints(rang.v)
             ids == range(r[1], r[2] + 1)
         IN  [k \in DOMAIN ids |-> "stars" \o str(ids[k])]

-----------------------------------------------------------------------------
(* Calls of single functions                                                *)

\* no ida_photometers call
PhotIdle == [pc |-> "done", names |-> <<>>, i |-> 0, left |-> <<>>]

\* no pipe_single call
FetchIdle == [state |-> "none", status |-> 0]

\* no call under check
CallIdle == [fn |-> "none", pc |-> "returned"]

\* ida_names_by_seq_or_range as cli_ida_photometers and cli_pipe_photometers
\* call it, and with both arguments given
SelectorCalls ==
    {[fn |-> "ida_names_by_seq_or_range", pc |-> "called", seq |-> s, rang |-> r,
      result |-> <<>>] :
        s \in {NoArg} \cup {Arg(l) : l \in Lists},
        r \in {NoArg} \cup {Arg(l) : l \in Ranges}}
    \ {[fn |-> "ida_names_by_seq_or_range", pc |-> "called", seq |-> NoArg,
        rang |-> NoArg, result |-> <<>>]}

call_ida_names_by_seq_or_range ==
    /\ fcall.fn = "ida_names_by_seq_or_range"
    /\ fcall.pc = "called"
    /\ fcall' = [fcall EXCEPT !.pc = "returned",
                              !.result = ida_names_by_seq_or_range(fcall.seq, fcall.rang)]
    /\ UNCHANGED <<phot, fetch, locations>>
    /\ UNCHANGED <<tvars, dvars, pvars>>

-----------------------------------------------------------------------------
(* Download for a set of photometers (download.py)                          *)

\* The longest month range of the downloads for a set of photometers.
MaxPhotMonths == 2

\* The names ida_photometers and ida_location loop over: what
\* ida_names_by_seq_or_range gives, and a directory listing in its own order.
PhotNames ==
    {ida_names_by_seq_or_range(NoArg, Arg(r)) : r \in [1 .. 2 -> {9, 10}]}
    \cup {<<"stars10", "stars9">>}

\* a loop that does not await download_ida_range
download_ida_range_not_awaited(pc) == TRUE

\* lines 234, 252: await download_ida_range(...) goes on when the call returned
download_ida_range_awaited(pc) == pc = "done"

\* lines 233-234 (251-252): download_ida_range is called for the next name
download_ida_range_call ==
    /\ phot.pc = "loop"
    /\ phot.i < Len(phot.names)
    /\ phot' = [phot EXCEPT !.pc = "await", !.i = @ + 1]
    /\ rangePc' = "loop"
    /\ waves' = <<>>
    /\ task' = [m \in Range(Months) |-> "none"]
    /\ status' = [m \in Range(Months) |-> 0]
    /\ dirIsDir' = FALSE
    /\ idaFS' = [m \in Range(Months) |-> "none"]
    /\ UNCHANGED args
    /\ UNCHANGED <<fetch, locations, fcall>>
    /\ UNCHANGED <<tvars, pvars>>

\* lines 234, 252: the call has returned; the loop keeps what it left behind
download_ida_range_return ==
    /\ phot.pc = "await"
    /\ download_ida_range_awaited(rangePc)
    /\ phot' = [phot EXCEPT !.pc = "loop",
                            !.left = Append(@, [name |-> phot.names[phot.i],
                                                waves |-> waves, task |-> task])]
    /\ UNCHANGED dvars
    /\ UNCHANGED <<fetch, locations, fcall>>
    /\ UNCHANGED <<tvars, pvars>>

\* lines 234, 252: the call has raised, and so does the loop
download_ida_range_raise ==
    /\ phot.pc = "await"
    /\ rangePc = "raised"
    /\ phot' = [phot EXCEPT !.pc = "raised"]
    /\ UNCHANGED dvars
    /\ UNCHANGED <<fetch, locations, fcall>>
    /\ UNCHANGED <<tvars, pvars>>

\* lines 233, 251: no name is left
ida_photometers_return ==
    /\ phot.pc = "loop"
    /\ phot.i = Len(phot.names)
    /\ phot' = [phot EXCEPT !.pc = "done"]
    /\ UNCHANGED dvars
    /\ UNCHANGED <<fetch, locations, fcall>>
    /\ UNCHANGED <<tvars, pvars>>

-----------------------------------------------------------------------------
(* The pipeline of a single file: tess-ida-pipe single (pipeline.py)        *)

\* the raw file of the run: <name>_<month>.dat in the photometer's directory
SinglePath == [name |-> run.names[1], month |-> strftime(run.since)]

SingleArgs ==
    [cmd : {"single"}, names : {SubSeq(RNames, 1, 1)}, since : RDates,
     until : {RLast}, fix : BOOLEAN, skip : {FALSE}]

\* pipeline.py:81, download.py:134-144: the GET is answered with status st;
\* on anything but 404 the body, of content c, becomes the raw file
download_ida_single(st, c) ==
    /\ main.pc = "single"
    /\ fetch' = [state |-> after_response(st), status |-> st]
    /\ rawFS' = IF after_response(st) = "skipped" THEN rawFS
                ELSE [rawFS EXCEPT ![SinglePath] = c]
    /\ main' = [main EXCEPT !.pc = "ecsv", !.fetches = @ + 1]
    /\ UNCHANGED <<dbConfigured, ecsv_t, coords_t, ecsvFS, since, transformed>>
    /\ UNCHANGED <<run, worker, combiner, log, combFS>>
    /\ UNCHANGED <<phot, locations, fcall>>
    /\ UNCHANGED dvars

\* pipeline.py:81: the request fails or times out; no except clause of the
\* run catches it
download_ida_single_raise ==
    /\ main.pc = "single"
    /\ fetch' = [state |-> "failed", status |-> 0]
    /\ main' = [main EXCEPT !.pc = except_clause("ClientError"),
                            !.exc = "ClientError", !.fetches = @ + 1]
    /\ UNCHANGED <<run, worker, combiner, log, combFS>>
    /\ UNCHANGED <<phot, locations, fcall>>
    /\ UNCHANGED <<tvars, dvars>>

\* pipeline.py:82-84, timeseries.py:335-344: to_ecsv_single in a thread, awaited
to_ecsv_single ==
    /\ main.pc = "ecsv"
    /\ IF rawFS[SinglePath] = Missing
       THEN /\ main' = [main EXCEPT !.pc = except_clause("FileNotFoundError"),
                                    !.exc = "FileNotFoundError"]
            /\ log' = Append(log, [path |-> SinglePath, outcome |-> "FileNotFoundError",
                                   pc |-> main.pc, combining |-> combiner.state])
            /\ UNCHANGED <<ecsv_t, ecsvFS, since, transformed>>
       ELSE LET tcall == ToEcsv(SinglePath, run.fix) IN
            /\ ecsv_t' = tcall.rows
            /\ ecsvFS' = [ecsvFS EXCEPT ![SinglePath] = tcall.table]
            /\ since' = [since EXCEPT ![SinglePath] = Kept(SinglePath, tcall)]
            /\ transformed' = [transformed EXCEPT ![SinglePath] =
                                  IF tcall.outcome = "written" THEN @ + 1 ELSE @]
            /\ log' = Append(log, [path |-> SinglePath, outcome |-> tcall.outcome,
                                   pc |-> main.pc, combining |-> combiner.state])
            /\ main' = IF tcall.outcome \in {"written", "skipped"}
                       THEN [main EXCEPT !.pc = "save"]
                       ELSE [main EXCEPT !.pc = except_clause(tcall.outcome),
                                         !.exc = tcall.outcome]
    /\ UNCHANGED <<dbConfigured, coords_t, rawFS>>
    /\ UNCHANGED <<run, worker, combiner, combFS>>
    /\ UNCHANGED <<phot, fetch, locations, fcall>>
    /\ UNCHANGED dvars

-----------------------------------------------------------------------------
(* File names of a single download and transform (download.py,              *)
(* timeseries.py, utils/utils.py).  A file name or a path is the sequence   *)
(* of its pieces: names, separators and extensions.                         *)

\* strftime("%Y-%m") as text
strftime_Ym(d) ==
    str(d.year) \o "-" \o (IF d.month < 10 THEN "0" ELSE "") \o str(d.month)

\* os.getcwd()
Cwd == <<"/", "home">>

\* the extensions a file name may end in
Extensions == {".dat", ".txt", ".v2", ".ecsv"}

\* os.path.isabs
isabs(path) == path # <<>> /\ path[1] = "/"

\* os.path.join(a, b)
join(a, b) == IF isabs(b) THEN b ELSE a \o <<"/">> \o b

\* a splitext that finds no extension
splitext_whole(filename) == filename

\* os.path.splitext(filename)[0]
splitext(filename) ==
    IF filename # <<>> /\ filename[Len(filename)] \in Extensions
    THEN SubSeq(filename, 1, Len(filename) - 1)
    ELSE filename

\* str.split("_") of a file name without its extension
RECURSIVE split(_)
split(pieces) ==
    IF pieces = <<>> THEN <<<<>>>>
    ELSE LET rest == split(Tail(pieces)) IN
         IF Head(pieces) = "_" THEN <<<<>>>> \o rest
         ELSE <<<<Head(pieces)>> \o Head(rest)>> \o Tail(rest)

\* utils/utils.py:35-38 on a file name: the month, or the IndexError of [1]
month_of(filename) ==
    LET parts == split(splitext(filename)) IN
    IF Len(parts) < 2 THEN "IndexError" ELSE parts[2]

\* utils/utils.py:41-46
to_phot_dir(base_dir, name) ==
    LET base == IF ~base_dir.given THEN Cwd
                ELSE IF ~isabs(base_dir.v) THEN join(Cwd, base_dir.v)
                ELSE base_dir.v
    IN  join(base, <<name>>)

\* download.py:131, timeseries.py:339
target_file(name, month, exact) ==
    IF ~exact.given THEN <<name, "_", strftime_Ym(month.v), ".dat">> ELSE exact.v

\* download.py:130-144: the request, the directory made and the file
\* written, or the exception that comes before them
do_ida_single(name, month, exact, ida_base_dir, dirs) ==
    LET file == target_file(name, month, exact) IN
    IF month_of(file) = "IndexError"
    THEN [exc |-> "IndexError", dirs |-> dirs]
    ELSE [exc |-> None,
          params |-> [path |-> <<"/", name>>, files |-> file],
          dirs |-> dirs \cup {to_phot_dir(ida_base_dir, name)},
          file_path |-> join(to_phot_dir(ida_base_dir, name), file)]

\* timeseries.py:335-344: the arguments of do_to_ecsv_single and the
\* directory made
to_ecsv_single_paths(base_dir, name, month, exact, out_dir, dirs) ==
    LET filename == target_file(name, month, exact) IN
    [in_path |-> join(to_phot_dir(base_dir, name), filename),
     dirs |-> dirs \cup {to_phot_dir(out_dir, name)},
     out_path |-> join(to_phot_dir(out_dir, name), splitext(filename) \o <<".ecsv">>)]

\* --exact values: monthly files as the IDA server names them, and other names
ExactNames ==
    {<<"stars1", "_", "2023-06", "_", "-1", ".dat">>,
     <<"stars1", "_", "2023-06", ".dat">>,
     <<"stars1", "_", "2023-06", ".v2", ".dat">>,
     <<"stars1", "_", "2023-06">>,
     <<"README", ".txt">>}

\* -i and -o values: none, a relative and an absolute directory
BaseDirs == {NoArg, Arg(<<"IDA">>), Arg(<<"/", "data">>)}

\* tess-ida-pipe single: --month or --exact, the base directories, and the
\* directories that exist
SingleCalls ==
    {[fn |-> "pipe_single", pc |-> "called", name |-> n, month |-> mo, exact |-> e,
      ida_base_dir |-> i, ecsv_base_dir |-> o, dirs |-> d,
      result |-> [exc |-> None]] :
        n \in {"stars1", "stars10"},
        mo \in {NoArg} \cup {Arg(x) : x \in {RFirst, SinceMonth}},
        e \in {NoArg} \cup {Arg(x) : x \in ExactNames},
        i \in BaseDirs, o \in {NoArg, Arg(<<"ECSV">>)},
        d \in {{}, {<<"/", "home", "/", "IDA", "/", "stars1">>}}}

\* pipeline.py:81-84 as far as names go: do_ida_single, then to_ecsv_single
call_pipe_single ==
    /\ fcall.fn = "pipe_single"
    /\ fcall.pc = "called"
    /\ LET got == do_ida_single(fcall.name, fcall.month, fcall.exact,
                                fcall.ida_base_dir, fcall.dirs)
           put == to_ecsv_single_paths(fcall.ida_base_dir, fcall.name, fcall.month,
                                       fcall.exact, fcall.ecsv_base_dir, got.dirs)
       IN  fcall' = [fcall EXCEPT !.pc = "returned",
                                  !.result = IF got.exc # None THEN got
                                             ELSE [exc |-> None,
                                                   params |-> got.params,
                                                   file_path |-> got.file_path,
                                                   in_path |-> put.in_path,
                                                   out_path |-> put.out_path,
                                                   dirs |-> put.dirs]]
    /\ UNCHANGED <<phot, fetch, locations>>
    /\ UNCHANGED <<tvars, dvars, pvars>>

-----------------------------------------------------------------------------
(* Photometers near a location (download.py).  Longitudes and latitudes are *)
(* held in millionths of a degree, distances in metres.                     *)

\* EARTH_RADIUS * math.radians(1.0): the metres of one degree of arc
METRES_PER_DEGREE == 111195

\* The largest --radius, in km, the model asks for.
MaxRadius == 2

\* The longest geolist.csv the model reads.
MaxListing == 3

\* the latitudes of the query points, and 1000 * cos of them
QueryLatitudes == {0, 60000000}

cos_milli(lat) == IF lat < 30000000 /\ lat > 0 - 30000000 THEN 1000 ELSE 500

\* math.sqrt, to the whole below
RECURSIVE isqrt(_, _, _)
isqrt(lo, hi, s) ==
    IF lo >= hi THEN lo
    ELSE LET mid == (lo + hi + 1) \div 2 IN
         IF mid * mid <= s THEN isqrt(mid, hi, s) ELSE isqrt(lo, mid - 1, s)

\* lines 62-88: coords are <<longitude, latitude>>
distance(coords_A, coords_B) ==
    LET delta_long == coords_A[1] - coords_B[1]
        delta_lat  == coords_A[2] - coords_B[2]
        mean_lat   == (coords_A[2] + coords_B[2]) \div 2
        across     == (cos_milli(mean_lat) * delta_long) \div 1000
        arc        == isqrt(0, 40000, delta_lat * delta_lat + across * across)
    IN  (arc * METRES_PER_DEGREE + 500000) \div 1000000

\* a filter that leaves out the photometers at the radius itself
filter_by_distance_strict(longitude, latitude, radius, item) ==
    distance(<<item.longitude, item.latitude>>, <<longitude, latitude>>) < radius

\* lines 91-95
filter_by_distance(longitude, latitude, radius, item) ==
    distance(<<item.longitude, item.latitude>>, <<longitude, latitude>>) <= radius

\* lines 107-124: the rows of geolist.csv, or none on a 404
do_get_location_list(st, listing) == IF st = 404 THEN <<>> ELSE listing

\* lines 170-180
ida_names_by_location(lon, lat, radius, st, listing) ==
    LET by_distance(item) == filter_by_distance(lon, lat, 1000 * radius, item)
        result == SelectSeq(do_get_location_list(st, listing), by_distance)
    IN  [k \in DOMAIN result |-> result[k].name]

\* The photometers of geolist.csv by their offsets from a query point at
\* latitude lat: at the point, 1000 m and 1001 m north of it, 1000 m east of
\* it at latitude 0 (and half as far at latitude 60), 2001 m north of it.
GeoItems(lat) ==
    {[name |-> "stars1", longitude |-> 0,    latitude |-> lat],
     [name |-> "stars2", longitude |-> 0,    latitude |-> lat + 8993],
     [name |-> "stars3", longitude |-> 0,    latitude |-> lat + 9002],
     [name |-> "stars4", longitude |-> 8993, latitude |-> lat],
     [name |-> "stars5", longitude |-> 0,    latitude |-> lat - 17995]}

\* the listings: rows of different photometers, in any order
Listings(lat) ==
    {l \in UNION {[1 .. n -> GeoItems(lat)] : n \in 0 .. MaxListing} :
        \A j, k \in DOMAIN l : j # k => l[j] # l[k]}

LocationCalls ==
    {[fn |-> "ida_names_by_location", pc |-> "called", lon |-> 0, lat |-> c[1],
      radius |-> c[2], status |-> c[3], listing |-> c[4], result |-> <<>>] :
        c \in {c \in QueryLatitudes \X (0 .. MaxRadius) \X {200, 404}
                     \X UNION {Listings(lat) : lat \in QueryLatitudes} :
                  c[4] \in Listings(c[1])}}

call_ida_names_by_location ==
    /\ fcall.fn = "ida_names_by_location"
    /\ fcall.pc = "called"
    /\ fcall' = [fcall EXCEPT !.pc = "returned",
                              !.result = ida_names_by_location(fcall.lon, fcall.lat,
                                             fcall.radius, fcall.status, fcall.listing)]
    /\ UNCHANGED <<phot, fetch, locations>>
    /\ UNCHANGED <<tvars, dvars, pvars>>

-----------------------------------------------------------------------------
(* The table of locations kept by the operator (admdb.py).  The table is    *)
(* the sequence of its rows; each command reads it from its file, changes   *)
(* it and writes it back.                                                   *)

\* --name, --latitude, --longitude and --height values of the commands
LocNames == {"stars1", "stars2"}

LocLatitudes == {40, 41}

LocLongitudes == {3}

LocHeights == {0, 650}

\* table.loc[name] under the index on phot_name: the rows of that name
loc(table, name) == {k \in DOMAIN table : table[k].phot_name = name}

\* add_row on a table without an index
add_row_no_index(table, row) == [exc |-> None, table |-> Append(table, row)]

\* table.add_row(...) under add_index('phot_name', unique=True): the table
\* with the row at its end, or the ValueError of a name the index holds,
\* which leaves the table as it was
add_row(table, row) ==
    IF loc(table, row.phot_name) # {}
    THEN [exc |-> "ValueError", table |-> table]
    ELSE [exc |-> None, table |-> Append(table, row)]

\* table.remove_rows(res.index)
remove_rows(table, rows) ==
    LET keep(k) == k \notin rows
        kept == SelectSeq([k \in DOMAIN table |-> k], keep)
    IN  [j \in DOMAIN kept |-> table[kept[j]]]

\* lines 178-192
cli_location_add(name, latitude, longitude, height) ==
    /\ LET table == locations
           row == [phot_name |-> name, latitude |-> latitude,
                   longitude |-> longitude, height |-> height]
       IN  locations' = add_row(table, row).table
    /\ fcall' = [fn |-> "cli_location_add", pc |-> "returned", name |-> name,
                 latitude |-> Arg(latitude), longitude |-> Arg(longitude),
                 height |-> Arg(height), table |-> locations]
    /\ UNCHANGED <<phot, fetch>>
    /\ UNCHANGED <<tvars, dvars, pvars>>

\* lines 195-218
cli_location_update(name, lati, longi, h) ==
    /\ LET table == locations
           res == loc(table, name)
       IN  locations' =
               IF res = {} THEN table
               ELSE [k \in DOMAIN table |->
                        IF k \notin res THEN table[k]
                        ELSE [phot_name |-> table[k].phot_name,
                              latitude  |-> IF lati.given THEN lati.v
                                            ELSE table[k].latitude,
                              longitude |-> IF longi.given THEN longi.v
                                            ELSE table[k].longitude,
                              height    |-> IF h.given THEN h.v
                                            ELSE table[k].height]]
    /\ fcall' = [fn |-> "cli_location_update", pc |-> "returned", name |-> name,
                 latitude |-> lati, longitude |-> longi, height |-> h,
                 table |-> locations]
    /\ UNCHANGED <<phot, fetch>>
    /\ UNCHANGED <<tvars, dvars, pvars>>

\* lines 221-234
cli_location_delete(name) ==
    /\ LET table == locations
           res == loc(table, name)
       IN  locations' = IF res = {} THEN table ELSE remove_rows(table, res)
    /\ fcall' = [fn |-> "cli_location_delete", pc |-> "returned", name |-> name,
                 latitude |-> NoArg, longitude |-> NoArg, height |-> NoArg,
                 table |-> locations]
    /\ UNCHANGED <<phot, fetch>>
    /\ UNCHANGED <<tvars, dvars, pvars>>

-----------------------------------------------------------------------------
(* The pipeline run twice (pipeline.py)                                     *)

\* what is kept of the first of two runs: how it ended and what it left
FirstRun ==
    [fn |-> "cli_pipeline", pc |-> "second", ended |-> main.pc, exc |-> main.exc,
     ecsv_t |-> ecsv_t, ecsvFS |-> ecsvFS, transformed |-> transformed,
     combFS |-> combFS]

\* pipeline.py:294-303: tess-ida-pipe is started again with the command line
\* of the run that has ended; the files and the database are as it left them
\* and the IDA server has the same files
cli_pipeline_again ==
    /\ main.pc \in {"done", "crashed"}
    /\ run.cmd = "pipe"
    /\ fcall = CallIdle
    /\ fcall' = FirstRun
    /\ main' = [pc |-> "load", i |-> 1, loads |-> 0, saves |-> 0, fetches |-> 0,
                exc |-> None]
    /\ worker' = NoThread
    /\ combiner' = NoCombiner
    /\ log' = <<>>
    /\ UNCHANGED <<run, combFS>>
    /\ UNCHANGED <<phot, fetch, locations>>
    /\ UNCHANGED tvars
    /\ UNCHANGED dvars

-----------------------------------------------------------------------------
(* The files to_ecsv_combine reads and the file it writes (timeseries.py).  *)
(* The directory of a photometer is the set of its file names.              *)

\* strftime("%Y%m") as text
strftime_compact(d) ==
    str(d.year) \o (IF d.month < 10 THEN "0" ELSE "") \o str(d.month)

\* the months of the monthly ECSV files a directory may hold
CombMonths == [k \in 1 .. 4 |-> PlusMonths(PrevMonth(RFirst), k - 1)]

\* the months --since and --until are drawn from
CombDates == {CombMonths[2], CombMonths[3]}

\* the photometer whose directory is combined
CombName == "stars1"

\* <name>_<YYYY-MM>.ecsv, as to_ecsv_range names it
monthly_ecsv(name, d) == <<name, "_", strftime_Ym(d), ".ecsv">>

\* a default name with its two months held apart by an underscore
default_oname_underscore(name, since_, until_) ==
    <<name, "_", strftime_Ym(since_), "_", strftime_Ym(until_), ".ecsv">>

\* lines 398-402: f"{name}_{since.strftime('%Y%m')}-{until.strftime('%Y%m')}.ecsv"
default_oname(name, since_, until_) ==
    <<name, "_", strftime_compact(since_) \o "-" \o strftime_compact(until_), ".ecsv">>

\* the tokens after the first underscore of the names of a directory, in
\* ascending order of their text: "2023-05" < "2023-06" < ... < "202306-202306"
\* < "202306-202307" < ..., as "-" sorts before "0"
TokenOrder ==
    [k \in DOMAIN CombMonths |-> strftime_Ym(CombMonths[k])]
    \o <<strftime_compact(CombMonths[2]) \o "-" \o strftime_compact(CombMonths[2]),
         strftime_compact(CombMonths[2]) \o "-" \o strftime_compact(CombMonths[3]),
         strftime_compact(CombMonths[3]) \o "-" \o strftime_compact(CombMonths[2]),
         strftime_compact(CombMonths[3]) \o "-" \o strftime_compact(CombMonths[3])>>

TokenRank(filename) ==
    LET at == {k \in DOMAIN TokenOrder : TokenOrder[k] = filename[3]} IN
    IF at = {} THEN 0 ELSE CHOOSE k \in at : TRUE

\* sorted(glob.iglob(".../stars*.ecsv")) on the names of one photometer
RECURSIVE sorted_names(_)
sorted_names(files) ==
    IF files = {} THEN <<>>
    ELSE LET first == CHOOSE f \in files :
                          \A g \in files :
                              \/ TokenRank(f) < TokenRank(g)
                              \/ TokenRank(f) = TokenRank(g) /\ Len(f) <= Len(g)
         IN  <<first>> \o sorted_names(files \ {first})

glob_stars_ecsv(dir) ==
    sorted_names({f \in dir : /\ f[Len(f)] = ".ecsv"
                             /\ f[1] \in {"stars" \o str(i) : i \in 0 .. MaxId}})

\* line 362, 385 on text: YYYY-MM of the months of the range
month_range_Ym(since_, until_) ==
    IF DateLeq(since_, until_)
    THEN [k \in 1 .. (until_.year * 12 + until_.month - since_.year * 12 - since_.month + 1)
             |-> <<strftime_Ym(PlusMonths(since_, k - 1))>>]
    ELSE <<>>

\* lines 384-387
RECURSIVE ecsv_candidates(_, _)
ecsv_candidates(found, months) ==
    IF found = <<>> THEN <<>>
    ELSE (IF in_months(month_of(Head(found)), months) THEN <<Head(found)>> ELSE <<>>)
         \o ecsv_candidates(Tail(found), months)

\* lines 370-407: the exception raised, or the names listed under "combined"
\* and the name of the file written (none when nothing is found)
to_ecsv_combine_names(dir, name, since_, until_) ==
    LET months == month_range_Ym(since_, until_)
        candidate_path == ecsv_candidates(glob_stars_ecsv(dir), months)
    IN  IF months = <<>>
        THEN [exc |-> "IndexError", combined |-> <<>>, written |-> {}]
        ELSE IF candidate_path = <<>>
        THEN [exc |-> None, combined |-> <<>>, written |-> {}]
        ELSE [exc |-> None, combined |-> candidate_path,
              written |-> {default_oname(name, since_, until_)}]

\* tess-ida-ecsv combine with the default output name, on the directory as
\* the earlier calls left it
do_to_ecsv_combine(since_, until_) ==
    /\ fcall.fn = "to_ecsv_combine"
    /\ LET got == to_ecsv_combine_names(fcall.dir, CombName, since_, until_) IN
       fcall' = [fcall EXCEPT !.dir = @ \cup got.written,
                              !.since = since_, !.until = until_,
                              !.calls = Min(@ + 1, 2),
                              !.result = got]
    /\ UNCHANGED <<phot, fetch, locations>>
    /\ UNCHANGED <<tvars, dvars, pvars>>

-----------------------------------------------------------------------------
(* The position of a header (timeseries.py:162-195, utils/utils.py:55-58).  *)
(* A token of the position line is the sequence of its characters.          *)

\* str.lower on the letters the tokens are written with
lower(c) ==
    CASE c = "N" -> "n" [] c = "O" -> "o" [] c = "E" -> "e" [] c = "U" -> "u"
      [] c = "K" -> "k" [] c = "W" -> "w" [] OTHER -> c

\* str.strip
RECURSIVE lstrip(_)
lstrip(value) ==
    IF value # <<>> /\ Head(value) = " " THEN lstrip(Tail(value)) ELSE value

RECURSIVE rstrip(_)
rstrip(value) ==
    IF value # <<>> /\ value[Len(value)] = " "
    THEN rstrip(SubSeq(value, 1, Len(value) - 1)) ELSE value

strip(value) == lstrip(rstrip(value))

\* a v_or_n that compares the text as it is written
v_or_n_as_written(value) ==
    IF strip(value) \in {<<"n", "o", "n", "e">>, <<"u", "n", "k", "n", "o", "w", "n">>, <<>>}
    THEN [none |-> TRUE] ELSE [none |-> FALSE, v |-> strip(value)]

\* utils/utils.py:55-58: None, or the text without the blanks around it
v_or_n(value) ==
    LET text == strip(value)
        low  == [k \in DOMAIN text |-> lower(text[k])]
    IN  IF low \in {<<"n", "o", "n", "e">>, <<"u", "n", "k", "n", "o", "w", "n">>, <<>>}
        THEN [none |-> TRUE] ELSE [none |-> FALSE, v |-> text]

\* the value of a text of digits
RECURSIVE digits_value(_)
digits_value(text) ==
    IF text = <<>> THEN 0
    ELSE 10 * digits_value(SubSeq(text, 1, Len(text) - 1))
         + (CHOOSE d \in 0 .. 9 : Digits[d + 1] = text[Len(text)])

\* float(x) of v_or_n's result: the TypeError of None, the ValueError of a
\* text that is no number, or the number (whole numbers, with or without sign)
float(x) ==
    IF x.none THEN [exc |-> "TypeError"]
    ELSE LET body == IF Head(x.v) = "-" THEN Tail(x.v) ELSE x.v IN
         IF body = <<>> \/ \E k \in DOMAIN body : body[k] \notin Range(Digits)
         THEN [exc |-> "ValueError"]
         ELSE [exc |-> None,
               v |-> IF Head(x.v) = "-" THEN 0 - digits_value(body)
                     ELSE digits_value(body)]

\* lines 162-195: the position of the header, or the exception raised;
\* fallback tells whether the except clause was entered and lookup whether
\* aux_table_coords_lookup was called.  coords is the row of the photometer
\* in coords_t, or NoRow.
header_position(latitude, longitude, height, fix, coords) ==
    LET lati  == float(v_or_n(latitude))
        longi == float(v_or_n(longitude))
        h     == IF v_or_n(height).none THEN [exc |-> None, v |-> 0]
                 ELSE float(v_or_n(height))
        first == IF lati.exc # None THEN lati.exc
                 ELSE IF longi.exc # None THEN longi.exc
                 ELSE h.exc
    IN  IF first = None
        THEN [exc |-> None, fallback |-> FALSE, lookup |-> FALSE,
              position |-> [latitude |-> lati.v, longitude |-> longi.v, height |-> h.v]]
        ELSE IF first # "TypeError"
        THEN [exc |-> first, fallback |-> FALSE, lookup |-> FALSE, position |-> NoPosition]
        ELSE IF ~fix
        THEN [exc |-> "NoCoordinatesError", fallback |-> TRUE, lookup |-> FALSE,
              position |-> NoPosition]
        ELSE IF coords = NoRow
        THEN [exc |-> "NoCoordinatesError", fallback |-> TRUE, lookup |-> TRUE,
              position |-> NoPosition]
        ELSE [exc |-> None, fallback |-> TRUE, lookup |-> TRUE,
              position |-> coords_position(coords)]

\* the tokens of the position lines: numbers, the texts that stand for no
\* value, and a text that is neither
NumberTokens == {<<"4", "1">>, <<" ", "-", "4">>, <<"0">>}

NoneTokens == {<<"N", "o", "n", "e">>, <<" ", "n", "o", "n", "e", " ">>,
               <<"U", "N", "K", "N", "O", "W", "N">>, <<>>, <<" ">>}

OtherTokens == {<<"n", "/", "a">>}

PositionTokens == NumberTokens \cup NoneTokens \cup OtherTokens

call_header_position ==
    /\ fcall.fn = "header_position"
    /\ fcall.pc = "called"
    /\ fcall' = [fcall EXCEPT !.pc = "returned",
                              !.result = header_position(fcall.latitude, fcall.longitude,
                                             fcall.height, fcall.fix, fcall.coords)]
    /\ UNCHANGED <<phot, fetch, locations>>
    /\ UNCHANGED <<tvars, dvars, pvars>>

-----------------------------------------------------------------------------
(* The directory of a photometer made by the tasks of a group               *)
(* (utils/utils.py:49-52 and main.py:59-65, run by asyncio.to_thread in     *)
(* threads of their own; os.makedirs as the standard library has it).       *)

\* os.makedirs that raises whatever exist_ok says
exist_ok_ignored(exist_ok, isdir) == FALSE

\* os.makedirs, "except OSError: if not exist_ok or not path.isdir(name):
\* raise": whether the error of mkdir is passed over
exist_ok_passes(exist_ok, isdir) == exist_ok /\ isdir

\* os.makedirs(full_dir_path, exist_ok=True), its mkdir: the directory is
\* made, or is there already and mkdir raises FileExistsError
os_mkdir(m) ==
    /\ task[m] = "mkdir"
    /\ dirIsDir' = TRUE
    /\ task' = [task EXCEPT ![m] = IF dirIsDir THEN "exists" ELSE "open"]
    /\ UNCHANGED <<args, rangePc, waves, status, idaFS>>
    /\ UNCHANGED tvars
    /\ UNCHANGED pvars
    /\ UNCHANGED xvars

\* os.makedirs(full_dir_path, exist_ok=True), its except clause
os_makedirs_except(m) ==
    /\ task[m] = "exists"
    /\ task' = [task EXCEPT ![m] = IF exist_ok_passes(TRUE, dirIsDir) THEN "open"
                                   ELSE "failed"]
    /\ UNCHANGED <<args, rangePc, waves, status, dirIsDir, idaFS>>
    /\ UNCHANGED tvars
    /\ UNCHANGED pvars
    /\ UNCHANGED xvars

\* main.py:62: if not os.path.isdir(dir_path)
mkdir_isdir(m) ==
    /\ task[m] = "mkdir"
    /\ task' = [task EXCEPT ![m] = IF dirIsDir THEN "open" ELSE "create"]
    /\ UNCHANGED <<args, rangePc, waves, status, dirIsDir, idaFS>>
    /\ UNCHANGED tvars
    /\ UNCHANGED pvars
    /\ UNCHANGED xvars

\* main.py:64: os.makedirs(dir_path), which raises FileExistsError when the
\* directory has been made since line 62
mkdir_makedirs(m) ==
    /\ task[m] = "create"
    /\ dirIsDir' = TRUE
    /\ task' = [task EXCEPT ![m] = IF ~dirIsDir \/ exist_ok_passes(FALSE, TRUE)
                                   THEN "open" ELSE "failed"]
    /\ UNCHANGED <<args, rangePc, waves, status, idaFS>>
    /\ UNCHANGED tvars
    /\ UNCHANGED pvars
    /\ UNCHANGED xvars

-----------------------------------------------------------------------------
(* Initial predicates and specifications                                   *)

TIdle ==
    /\ dbConfigured = FALSE
    /\ ecsv_t = {}
    /\ coords_t = {}
    /\ rawFS = [p \in Paths |-> Missing]
    /\ ecsvFS = [p \in Paths |-> NoFile]
    /\ since = [p \in Paths |-> NoCall]
    /\ transformed = [p \in Paths |-> 0]

DIdle ==
    /\ args = [since |-> SinceMonth, until |-> PrevMonth(SinceMonth), N |-> 1]
    /\ rangePc = "done"
    /\ waves = <<>>
    /\ task = <<>>
    /\ status = <<>>
    /\ dirIsDir = FALSE
    /\ idaFS = <<>>

\* no process run
PIdle ==
    /\ run = [cmd |-> "none", names |-> <<>>, since |-> RFirst, until |-> RFirst,
              fix |-> FALSE, skip |-> TRUE]
    /\ main = [pc |-> "done", i |-> 1, loads |-> 0, saves |-> 0, fetches |-> 0,
               exc |-> None]
    /\ worker = NoThread
    /\ combiner = NoCombiner
    /\ log = <<>>
    /\ combFS = [n \in Range(RNames) |-> NoCombined]

\* A run starts: the directories hold the raw files of its photometers (what
\* the downloads leave) and ECSV files of earlier runs.
PInit ==
    /\ dbConfigured \in BOOLEAN
    /\ ecsv_t = {}
    /\ coords_t = IF dbConfigured THEN CoordRows ELSE {}
    /\ run \in RunArgs
    /\ rawFS \in [RPaths -> {Missing} \cup RunContents]
    /\ \A p \in RPaths : p.name \notin Range(run.names) => rawFS[p] = Missing
    /\ ecsvFS \in [RPaths -> {NoFile, OldFile}]
    /\ \A p \in RPaths : ecsvFS[p] = OldFile => p = OldPath
    /\ since = [p \in RPaths |-> NoCall]
    /\ transformed = [p \in RPaths |-> 0]
    /\ main = [pc |-> "load", i |-> 1, loads |-> 0, saves |-> 0, fetches |-> 0,
               exc |-> None]
    /\ worker = NoThread
    /\ combiner = NoCombiner
    /\ log = <<>>
    /\ combFS = [n \in Range(RNames) |-> NoCombined]

PNext ==
    \/ aux_dbase_load
    \/ download_begin
    \/ download_return
    \/ download_raise
    \/ download_done
    \/ to_thread_range
    \/ range_single
    \/ to_ecsv_range_return
    \/ await_range
    \/ range_done
    \/ to_thread_combine
    \/ to_ecsv_combine
    \/ await_combine
    \/ aux_dbase_save

\* nothing of the photometers loop, the single pipeline, the locations table
\* or a function under check
XIdle ==
    /\ phot = PhotIdle
    /\ fetch = FetchIdle
    /\ locations = <<>>
    /\ fcall = CallIdle

RunInit == PInit /\ DIdle /\ XIdle

\* One run of tess-ida-ecsv range or tess-ida-pipe photometers
RunSpec == RunInit /\ [][PNext]_vars

DInit ==
    /\ \E k \in 0 .. MaxMonths, n \in ConcurrentChoices :
          /\ n <= MaxConcurrent
          /\ args = [since |-> SinceMonth,
                     until |-> PlusMonths(PrevMonth(SinceMonth), k),
                     N |-> n]
    /\ rangePc = "loop"
    /\ waves = <<>>
    /\ task = [m \in Range(Months) |-> "none"]
    /\ status = [m \in Range(Months) |-> 0]
    /\ dirIsDir = FALSE
    /\ idaFS = [m \in Range(Months) |-> "none"]

DNext ==
    \/ create_tasks
    \/ range_return
    \/ gather_return
    \/ gather_raise
    \/ \E m \in DOMAIN task, st \in Statuses : get_response(m, st)
    \/ \E m \in DOMAIN task : get_fails(m)
    \/ \E m \in DOMAIN task : resp_text(m)
    \/ \E m \in DOMAIN task : makedirs(m)
    \/ \E m \in DOMAIN task : open_file(m)
    \/ \E m \in DOMAIN task : write_file(m)
    \/ \E m \in DOMAIN task : cancel_pending(m)

DownloadInit == DInit /\ TIdle /\ PIdle /\ XIdle

\* The downloader alone: tess-ida-get range
DownloadSpec == DownloadInit /\ [][DNext]_vars

TInit ==
    /\ dbConfigured \in BOOLEAN
    /\ ecsv_t = {}
    /\ coords_t \in SUBSET CoordRows
    /\ ~dbConfigured => coords_t = {}
    /\ rawFS = [p \in Paths |-> Missing]
    /\ ecsvFS = [p \in Paths |-> NoFile]
    /\ since = [p \in Paths |-> NoCall]
    /\ transformed = [p \in Paths |-> 0]

TNext ==
    \/ \E p \in Paths, fix \in BOOLEAN : do_to_ecsv_single(p, fix)
    \/ \E p \in Paths, fix \in BOOLEAN : do_to_ecsv_missing(p, fix)
    \/ \E p \in Paths, c \in Contents : RawWrite(p, c)
    \/ \E p \in Paths : EcsvRemove(p)
    \/ cli_schema_create

\* ida_photometers or ida_location is entered with its names
PhotInit ==
    /\ \E k \in 0 .. MaxPhotMonths, n \in {1, 2} :
          args = [since |-> SinceMonth,
                  until |-> PlusMonths(PrevMonth(SinceMonth), k),
                  N |-> n]
    /\ rangePc = "done"
    /\ waves = <<>>
    /\ task = <<>>
    /\ status = <<>>
    /\ dirIsDir = FALSE
    /\ idaFS = <<>>
    /\ phot \in [pc : {"loop"}, names : PhotNames, i : {0}, left : {<<>>}]
    /\ fetch = FetchIdle
    /\ locations = <<>>
    /\ fcall = CallIdle

PhotNext ==
    \/ download_ida_range_call
    \/ download_ida_range_return
    \/ download_ida_range_raise
    \/ ida_photometers_return
    \/ DNext

PhotometersInit == PhotInit /\ TIdle /\ PIdle

\* tess-ida-get photometers / near
PhotometersSpec == PhotometersInit /\ [][PhotNext]_vars

\* A run of tess-ida-pipe single starts: the raw file of the month may be
\* there from an earlier run, and so may its ECSV file and its entry.
SInit ==
    /\ dbConfigured \in BOOLEAN
    /\ coords_t = IF dbConfigured THEN CoordRows ELSE {}
    /\ run \in SingleArgs
    /\ rawFS \in [RPaths -> {Missing} \cup RunContents]
    /\ \A p \in RPaths : p # SinglePath => rawFS[p] = Missing
    /\ ecsvFS \in [RPaths -> {NoFile, OldFile}]
    /\ \A p \in RPaths : ecsvFS[p] = OldFile => p = SinglePath /\ rawFS[p] # Missing
    /\ ecsv_t \in SUBSET {<<basename(SinglePath), hash_func(2)>>}
    /\ ecsv_t # {} => dbConfigured /\ ecsvFS[SinglePath] = OldFile
    /\ since = [p \in RPaths |-> NoCall]
    /\ transformed = [p \in RPaths |-> 0]
    /\ main = [pc |-> "load", i |-> 1, loads |-> 0, saves |-> 0, fetches |-> 0,
               exc |-> None]
    /\ worker = NoThread
    /\ combiner = NoCombiner
    /\ log = <<>>
    /\ combFS = [n \in Range(RNames) |-> NoCombined]
    /\ phot = PhotIdle
    /\ fetch = FetchIdle
    /\ locations = <<>>
    /\ fcall = CallIdle

SNext ==
    \/ aux_dbase_load
    \/ \E st \in {200, 404}, c \in RunContents : download_ida_single(st, c)
    \/ download_ida_single_raise
    \/ to_ecsv_single
    \/ aux_dbase_save

SingleInit == SInit /\ DIdle

\* One run of tess-ida-pipe single
SingleSpec == SingleInit /\ [][SNext]_vars

\* A raw file of the variant table is there; nothing of it was transformed.
HInit ==
    /\ dbConfigured \in BOOLEAN
    /\ ecsv_t = {}
    /\ coords_t = {}
    /\ rawFS \in [Paths -> {Missing} \cup VariantContents]
    /\ \E p \in Paths : rawFS[p] # Missing /\ \A q \in Paths \ {p} : rawFS[q] = Missing
    /\ ecsvFS = [p \in Paths |-> NoFile]
    /\ since = [p \in Paths |-> NoCall]
    /\ transformed = [p \in Paths |-> 0]

HNext ==
    \E p \in Paths, fix \in BOOLEAN : do_to_ecsv_single(p, fix)

HeaderInit == HInit /\ DIdle /\ PIdle /\ XIdle

\* tess-ida-ecsv single on files of every header variant
HeaderSpec == HeaderInit /\ [][HNext]_vars

\* tess-ida-ecsv single, again and again, on two raw files that are on disk
\* and that downloads may rewrite
BothInit ==
    /\ dbConfigured \in BOOLEAN
    /\ ecsv_t = {}
    /\ coords_t \in SUBSET CoordRows
    /\ ~dbConfigured => coords_t = {}
    /\ rawFS \in [Paths -> Contents]
    /\ ecsvFS = [p \in Paths |-> NoFile]
    /\ since = [p \in Paths |-> NoCall]
    /\ transformed = [p \in Paths |-> 0]

BothNext ==
    \/ \E p \in Paths, fix \in BOOLEAN : do_to_ecsv_single(p, fix)
    \/ \E p \in Paths, c \in Contents : RawWrite(p, c)

TwoFilesInit == BothInit /\ DIdle /\ PIdle /\ XIdle

TwoFilesSpec == TwoFilesInit /\ [][BothNext]_vars

\* tess-ida-pipe photometers with a database, run and then run again
AgainInit ==
    /\ PInit
    /\ run.cmd = "pipe"
    /\ dbConfigured

AgainNext == PNext \/ cli_pipeline_again

TwiceInit == AgainInit /\ DIdle /\ XIdle

TwiceSpec == TwiceInit /\ [][AgainNext]_vars

\* tess-ida-ecsv combine, again and again, on a directory of monthly ECSV files
CInit ==
    /\ fcall \in [fn : {"to_ecsv_combine"}, pc : {"returned"},
                  dir : SUBSET {monthly_ecsv(CombName, CombMonths[k]) : k \in DOMAIN CombMonths},
                  since : {CombMonths[2]}, until : {CombMonths[2]}, calls : {0},
                  result : {[exc |-> None, combined |-> <<>>, written |-> {}]}]
    /\ phot = PhotIdle
    /\ fetch = FetchIdle
    /\ locations = <<>>

CNext == \E s \in CombDates, u \in CombDates : do_to_ecsv_combine(s, u)

CombineInit == CInit /\ TIdle /\ DIdle /\ PIdle

CombineSpec == CombineInit /\ [][CNext]_vars

\* one command: tess-ida-get photometers / near, or tess-ida-pipe photometers
\* / tess-ida-ecsv range
CommandInit == PhotometersInit \/ RunInit

CommandNext == PhotNext \/ PNext

CommandSpec == CommandInit /\ [][CommandNext]_vars

\* ida_metadata reads the position line of a header
PosInit ==
    /\ fcall \in [fn : {"header_position"}, pc : {"called"},
                  latitude : PositionTokens, longitude : PositionTokens,
                  height : PositionTokens, fix : BOOLEAN,
                  coords : {NoRow} \cup CoordRows,
                  result : {[exc |-> None]}]
    /\ phot = PhotIdle
    /\ fetch = FetchIdle
    /\ locations = <<>>

PosNext == call_header_position

PositionInit == PosInit /\ TIdle /\ DIdle /\ PIdle

PositionSpec == PositionInit /\ [][PosNext]_vars

\* The most months of a download whose directory steps are followed.
MaxWave == 3

\* A download of two months or more in groups of two or more, the directory
\* of the photometer not there yet
WaveInit ==
    /\ \E k \in 2 .. MaxWave, n \in ConcurrentChoices :
          /\ 2 <= n /\ n <= MaxConcurrent
          /\ args = [since |-> SinceMonth,
                     until |-> PlusMonths(PrevMonth(SinceMonth), k),
                     N |-> n]
    /\ rangePc = "loop"
    /\ waves = <<>>
    /\ task = [m \in Range(Months) |-> "none"]
    /\ status = [m \in Range(Months) |-> 0]
    /\ dirIsDir = FALSE
    /\ idaFS = [m \in Range(Months) |-> "none"]

\* the steps of a download, but for the making of the directory
WaveNext ==
    \/ create_tasks
    \/ range_return
    \/ gather_return
    \/ gather_raise
    \/ \E m \in DOMAIN task :
          \/ \E st \in Statuses : get_response(m, st)
          \/ get_fails(m)
          \/ resp_text(m)
          \/ open_file(m)
          \/ write_file(m)
          \/ cancel_pending(m)

\* tess-ida-get range: the directory is made by makedirs of utils/utils.py
MakedirsNext ==
    \/ WaveNext
    \/ \E m \in DOMAIN task : os_mkdir(m) \/ os_makedirs_except(m)

MakedirsInit == WaveInit /\ TIdle /\ PIdle /\ XIdle

MakedirsSpec == MakedirsInit /\ [][MakedirsNext]_vars

\* the older downloader, main.py: the directory is made by its mkdir
LegacyNext ==
    \/ WaveNext
    \/ \E m \in DOMAIN task : mkdir_isdir(m) \/ mkdir_makedirs(m)

LegacyInit == WaveInit /\ TIdle /\ PIdle /\ XIdle

LegacySpec == LegacyInit /\ [][LegacyNext]_vars

\* One call of a function
FInit ==
    /\ fcall \in SelectorCalls
                \cup {c \in SingleCalls : c.month.given # c.exact.given}
                \cup LocationCalls
    /\ phot = PhotIdle
    /\ fetch = FetchIdle
    /\ locations = <<>>

FNext ==
    \/ call_ida_names_by_seq_or_range
    \/ call_pipe_single
    \/ call_ida_names_by_location

FunctionsInit == FInit /\ TIdle /\ DIdle /\ PIdle

FunctionsSpec == FunctionsInit /\ [][FNext]_vars

\* tess-ida-adm location add, update and delete, one command after another,
\* on the empty table of "schema create"
LInit ==
    /\ locations = <<>>
    /\ fcall = CallIdle
    /\ phot = PhotIdle
    /\ fetch = FetchIdle

LNext ==
    \/ \E n \in LocNames, la \in LocLatitudes, lo \in LocLongitudes, h \in LocHeights :
          cli_location_add(n, la, lo, h)
    \/ \E n \in LocNames,
          la \in {NoArg} \cup {Arg(x) : x \in LocLatitudes},
          lo \in {NoArg} \cup {Arg(x) : x \in LocLongitudes},
          h \in {NoArg} \cup {Arg(x) : x \in LocHeights} :
          cli_location_update(n, la, lo, h)
    \/ \E n \in LocNames : cli_location_delete(n)

LocationsInit == LInit /\ TIdle /\ DIdle /\ PIdle

LocationsSpec == LocationsInit /\ [][LNext]_vars

\* The transformer alone: tess-ida-ecsv and the operator around it
Init == TInit /\ DIdle /\ PIdle /\ XIdle

Next == TNext

Spec == Init /\ [][Next]_vars

-----------------------------------------------------------------------------
(* The incremental transformer: properties                                  *)

IsCall(p) == since[p].op # "nocall" /\ since[p].outcome # "FileNotFoundError"

\* the call before the latest one on p, with nothing of p changed in between
Rerun(p) == IsCall(p) /\ since[p].prev.op # "nocall"

Present(p) == since[p].result # NoRow

Equal(p) == Present(p) /\ since[p].data[2] = since[p].result[2]

Entry(p) == {<<since[p].data[1], since[p].data[2]>>}

IsSkip(p) ==
    /\ since[p].outcome = "skipped"
    /\ since[p].op = "none"
    /\ ~since[p].created
    /\ since[p].after = since[p].before

PairWrites(p) ==
    (IF since[p].prev.outcome = "written" THEN 1 ELSE 0)
    + (IF since[p].outcome = "written" THEN 1 ELSE 0)

PairInserts(p) ==
    (IF since[p].prev.op = "insert" THEN 1 ELSE 0)
    + (IF since[p].op = "insert" THEN 1 ELSE 0)

\* The raw bytes of p are a well-formed single-channel file whose position
\* the call can resolve.
Succeeds(p) ==
    LET h == ContentTable[rawFS[p]] IN
    /\ h.channels = 1 /\ h.cols = 8 /\ h.rows
    /\ h.position \/ (since[p].fix /\ dbConfigured /\ CoordsOf(p.name) # {})

C2_AtMostOneTransform ==
    \A p \in Paths : transformed[p] <= 1

\* C2 amended: with a configured store, once a call on a raw file has written
\* its artifact (or skipped because it is in place), no later call transforms
\* the file again until its bytes change, the artifact is deleted or the
\* tables are created anew.
C2_AtMostOneWhileCached ==
    [][\A p \in Paths :
          dbConfigured /\ IsCall(p) /\ since[p].outcome \in {"written", "skipped"}
          => transformed'[p] <= transformed[p]]_vars

C2_Witness ==
    \E p \in Paths :
        /\ dbConfigured /\ Rerun(p)
        /\ since[p].prev.outcome = "skipped" /\ since[p].outcome = "skipped"
        /\ transformed[p] = 1

\* C3: a call that ends in a format error (header assertion, malformed row)
\* has neither inserted nor updated the cache entry of its file.
C3_FailedTransformKeepsCache ==
    \A p \in Paths :
        IsCall(p) /\ since[p].outcome \in FormatErrors
        => since[p].after = since[p].before

-----------------------------------------------------------------------------
(* The downloader: properties                                               *)

Flying == {m \in DOMAIN task : task[m] \in InFlight}

\* ceil(a / b)
Ceil(a, b) == (a + b - 1) \div b

\* C6: a task whose GET was answered with a status that is neither success
\* nor 404 never returns normally and never creates a file for its month.
C6_FatalOnBadStatus ==
    \A m \in DOMAIN task :
        status[m] \notin {0, 200, 404}
        => task[m] # "done" /\ idaFS[m] = "none"

\* C7: a 404 ends its task as a skip with no file and no directory made, it
\* is never what makes do_ida_range raise, and a group whose members all
\* ended as written or skipped lets the range go on to its next group.
C7_SoftSkip ==
    /\ \A m \in DOMAIN task :
          status[m] = 404 => task[m] = "skipped" /\ idaFS[m] = "none"
    /\ dirIsDir => \E m \in DOMAIN task : status[m] \notin {0, 404}
    /\ rangePc = "raised"
       => \E m \in Grp : task[m] = "failed" /\ status[m] # 404
    /\ (\A m \in Grp : task[m] \in {"done", "skipped"})
       => gather(Grp) = "returned"

C7_Witness ==
    \E k \in DOMAIN waves :
        /\ k < Len(waves)
        /\ \E m1, m2 \in Range(waves[k]) :
              /\ status[m1] = 404 /\ task[m1] = "skipped"
              /\ status[m2] = 200 /\ task[m2] = "done" /\ idaFS[m2] = "ida"

\* C8: every fetch in flight belongs to the group created last, and every
\* fetch of an earlier group has completed.
C8_WaveOrdering ==
    /\ Flying \subseteq Grp
    /\ \A k \in DOMAIN waves :
          k < Len(waves)
          => \A m \in Range(waves[k]) : task[m] \in {"done", "skipped", "failed"}

C8_Witness ==
    /\ Len(waves) >= 2
    /\ Cardinality(Flying) >= 2

\* C9 as stated: a range of N months with batch size B is fetched in exactly
\* ceil(N/B) waves of B fetches (the last possibly shorter), at most B in
\* flight, every month requested once in ascending order.
C9_BatchCap ==
    /\ Cardinality(Flying) <= args.N
    /\ rangePc \in {"done", "raised"}
       => /\ Len(waves) = Ceil(Len(Months), args.N)
          /\ \A m \in DOMAIN task : task[m] # "none"

\* C9 amended: the waves issued are always the first waves of that
\* partition: wave k holds months (k-1)B+1 .. min(kB, N) of the ascending
\* range, at most B fetches are in flight, and a range that returns has
\* issued all ceil(N/B) waves; one that raises has issued no wave after the
\* failing one.
C9_BatchCapPrefix ==
    /\ Cardinality(Flying) <= args.N
    /\ \A i, j \in DOMAIN Months : i < j => Months[i] < Months[j]
    /\ Len(waves) <= Ceil(Len(Months), args.N)
    /\ \A k \in DOMAIN waves :
          waves[k] = SubSeq(Months, (k - 1) * args.N + 1,
                            Min(k * args.N, Len(Months)))
    /\ \A m \in DOMAIN task :
          task[m] # "none" <=> \E k \in DOMAIN waves : m \in Range(waves[k])
    /\ rangePc = "done" => Len(waves) = Ceil(Len(Months), args.N)

C9_Witness ==
    /\ rangePc = "done"
    /\ Len(waves) >= 2
    /\ Len(waves[Len(waves)]) < args.N
    /\ Months[Len(Months)] > 202400

\* C10: when do_ida_range has raised, every member of the failing group has
\* resolved by itself: none is in flight and none was cancelled.
C10_DeferredFatalError ==
    rangePc = "raised"
    => \A m \in Grp : task[m] \in {"done", "skipped", "failed"}

-----------------------------------------------------------------------------
(* Coordinates, the store and the cache entries: properties                 *)

\* the latest call on p ran the transform on a header without a position
Unresolved(p) ==
    IsCall(p) /\ since[p].created /\ ~ContentTable[rawFS[p]].position

\* C11: a transform of a header whose position is unresolved (a) with --fix
\* and a row of the photometer in coords_t does not raise NoCoordinatesError
\* and any artifact it writes has the row's latitude, longitude and height;
\* (b) without --fix, or with no such row, raises NoCoordinatesError; and a
\* call that raises NoCoordinatesError leaves the ECSV file as it was.
C11_CoordinateFallback ==
    /\ [](\A p \in Paths :
            Unresolved(p) =>
            IF since[p].fix /\ dbConfigured /\ CoordsOf(p.name) # {}
            THEN /\ since[p].outcome # "NoCoordinatesError"
                 /\ since[p].outcome = "written"
                    => \E r \in CoordsOf(p.name) :
                          ecsvFS[p].position =
                              [latitude |-> r[2], longitude |-> r[3], height |-> r[4]]
            ELSE since[p].outcome = "NoCoordinatesError")
    /\ [][\A p \in Paths :
            since'[p] # since[p] /\ since'[p].outcome = "NoCoordinatesError"
            => ecsvFS'[p] = ecsvFS[p]]_vars

C11_Witness ==
    \E p \in Paths :
        /\ Unresolved(p) /\ since[p].fix /\ since[p].outcome = "written"
        /\ ecsvFS[p].position # HeaderPosition
        /\ ecsvFS[p].src = rawFS[p]

\* C16 as stated: with no database configured the lookups find nothing,
\* insert and update change nothing, and every call transforms and writes the
\* artifact; a header without a position raises NoCoordinatesError, --fix or
\* not.
C16_UnconfiguredStore ==
    \A p \in Paths :
        ~dbConfigured /\ IsCall(p)
        => /\ ~Present(p) /\ since[p].op = "insert"
           /\ since[p].after = since[p].before /\ ecsv_t = {}
           /\ since[p].created
           /\ since[p].outcome = "written"

\* C16 amended: the same, with every call running the transform and writing
\* the artifact exactly when the transform succeeds.
C16_UnconfiguredNoCaching ==
    \A p \in Paths :
        ~dbConfigured /\ IsCall(p)
        => /\ ~Present(p) /\ since[p].op = "insert"
           /\ since[p].after = since[p].before /\ ecsv_t = {}
           /\ aux_table_coords_lookup(p.name) = NoRow
           /\ since[p].created
           /\ since[p].outcome # "skipped"
           /\ since[p].outcome = "written" <=> Succeeds(p)
           /\ since[p].outcome = "written" => ecsvFS[p].src = rawFS[p]
           /\ ~ContentTable[rawFS[p]].position
              => since[p].outcome = "NoCoordinatesError"

C16_Witness ==
    \E p \in Paths :
        /\ ~dbConfigured /\ Rerun(p)
        /\ since[p].prev.outcome = "written" /\ since[p].outcome = "written"
        /\ since[p].outIsFile
        /\ transformed[p] = 2

\* the latest step was a do_to_ecsv_single call on p
Called(p) == since'[p] # since[p] /\ since'[p].op # "nocall"

\* C18: the hash table holds at most one row per filename, and a
\* do_to_ecsv_single call on a file inserts a row only if its filename has
\* none, never removes the row of its filename, and neither adds, changes nor
\* removes the row of any other filename.
C18_EntryUniqueness ==
    /\ [](\A p \in Paths : Cardinality(RowsOf(basename(p))) <= 1)
    /\ [][\A p \in Paths :
            Called(p)
            => /\ \A r \in ecsv_t : r[1] # basename(p) => r \in ecsv_t'
               /\ \A r \in ecsv_t' : r[1] # basename(p) => r \in ecsv_t
               /\ RowsOf(basename(p)) # {}
                  => \E r \in ecsv_t' : r[1] = basename(p)
               /\ since'[p].op = "insert" => RowsOf(basename(p)) = {}
               /\ since'[p].op = "none" => ecsv_t' = ecsv_t]_vars

C18_Witness ==
    \E p \in Paths :
        /\ IsCall(p) /\ since[p].op = "update"
        /\ since[p].before # since[p].after
        /\ Cardinality(ecsv_t) = 2

-----------------------------------------------------------------------------
(* One process run: properties                                              *)

Ended == main.pc \in {"done", "crashed"}

\* The raw files the run is to transform: per photometer of the run, in the
\* order of the photometers, its files with a month of the range.
RunCandidates ==
    LET upto[i \in 0 .. Len(run.names)] ==
            IF i = 0 THEN <<>>
            ELSE upto[i - 1]
                 \o raw_candidate_path(run.names[i], run.since, run.until)
    IN  upto[Len(run.names)]

\* the months from --since to --until
InRange(month) == strftime(run.since) <= month /\ month <= strftime(run.until)

NameIndex(name) == CHOOSE i \in DOMAIN RNames : RNames[i] = name

\* C12: when a run has ended, every do_to_ecsv_single call of it that raised
\* NoCoordinatesError was followed by the call on the next raw file of the
\* range or of the next photometer, if there is one.
C12_NoCoordinatesRecoverable ==
    Ended =>
    \A k \in DOMAIN log :
        log[k].outcome = "NoCoordinatesError" /\ k < Len(RunCandidates)
        => k < Len(log)

\* C13: a call that raised a format error does not end the run: the run ends
\* by returning, having gone on to the next raw file if there is one.
C13_FormatErrorIsolated ==
    Ended =>
    \A k \in DOMAIN log :
        log[k].outcome \in FormatErrors
        => /\ main.pc = "done"
           /\ k < Len(RunCandidates) => k < Len(log)

\* C14: a to_ecsv_combine call that finds no ECSV file of the photometer with
\* a month in the range, the range being empty or not, returns with a warning
\* and writes nothing; it does not raise.
C14_CombineEmptiness ==
    /\ combiner.state \in {"returned", "raised"}
    /\ ecsv_candidate_path(combiner.name, run.since, run.until) = <<>>
    => /\ combiner.state = "returned"
       /\ combiner.warned
       /\ combFS[combiner.name] = NoCombined

\* the ECSV files of photometer n with a month from --since to --until
Constituents(n) ==
    {p \in DOMAIN ecsvFS : p.name = n /\ ecsvFS[p] # NoFile /\ InRange(p.month)}

\* C15: a combined file lists under "combined" exactly the base names of the
\* photometer's ECSV files on disk with a month in the range, each once and in
\* ascending order of month, and its rows are theirs in that order.
C15_CombineProvenance ==
    \A n \in DOMAIN combFS :
        combFS[n] # NoCombined =>
        LET c == combFS[n].combined
            r == combFS[n].rows
        IN  /\ Range(c) = {basename(p) : p \in Constituents(n)}
            /\ \A i, j \in DOMAIN c : i < j => c[i][2] < c[j][2]
            /\ DOMAIN r = DOMAIN c
            /\ \A k \in DOMAIN c :
                  r[k] = ecsvFS[[name |-> c[k][1], month |-> c[k][2]]].src

C15_Witness ==
    \E n \in DOMAIN combFS :
        /\ Len(combFS[n].combined) = 2
        /\ combFS[n].rows[1] # combFS[n].rows[2]
        /\ main.pc = "done"

\* C17: a run that has ended, however it ended, has called aux_dbase_load
\* once and aux_dbase_save once.
C17_StoreBracketing ==
    Ended => main.loads = 1 /\ main.saves = 1

\* C19: the do_to_ecsv_single calls of a run are made one at a time by the
\* one to_ecsv_range call the main coroutine is waiting for, photometer after
\* photometer in the order of the photometers and, within a photometer, in
\* ascending order of month.
C19_SerializedTransforms ==
    /\ worker.state = "running"
       => main.pc = "await_range" /\ combiner.state # "running"
    /\ Len(log) <= Len(RunCandidates)
    /\ \A k \in DOMAIN log :
          /\ log[k].path = RunCandidates[k]
          /\ log[k].pc = "await_range"
          /\ log[k].combining # "running"
    /\ \A i, j \in DOMAIN log :
          i < j
          => \/ NameIndex(log[i].path.name) < NameIndex(log[j].path.name)
             \/ /\ log[i].path.name = log[j].path.name
                /\ log[i].path.month < log[j].path.month

C19_Witness ==
    /\ Len(log) >= 3
    /\ log[1].path.name # log[Len(log)].path.name
    /\ main.fetches = Len(run.names)

-----------------------------------------------------------------------------
(* Cache entry against artifact                                             *)

\* the entry of raw file p holds the digest of the bytes p has now
HashMatches(p) ==
    /\ rawFS[p] # Missing
    /\ aux_table_hashes_lookup(basename(p)) # NoRow
    /\ aux_table_hashes_lookup(basename(p))[2] = hash_func(rawFS[p])

\* C30: whenever the stored digest of a raw file equals the digest of its
\* current bytes and its ECSV file exists, that ECSV file was produced from
\* the current bytes.
C30_NoStaleArtifact ==
    \A p \in Paths :
        HashMatches(p) /\ ecsvFS[p] # NoFile => ecsvFS[p].src = rawFS[p]

-----------------------------------------------------------------------------
(* Single functions: properties                                             *)

\* the directory names of the IDA server, by photometer number
StarsNames ==
    <<"stars1", "stars2", "stars3", "stars4", "stars5", "stars6", "stars7",
      "stars8", "stars9", "stars10", "stars11", "stars12", "stars13">>

Count(seq, x) == Cardinality({k \in DOMAIN seq : seq[k] = x})

Returned(fn) == fcall.fn = fn /\ fcall.pc = "returned"

\* C26: with a list given (a range given too or not) the names are those of
\* the listed numbers, as many times as listed, in ascending number order;
\* with a range alone they are the names of every number from the smaller to
\* the larger bound, each once, ascending, whichever bound came first.
C26_EntitySelector ==
    Returned("ida_names_by_seq_or_range") =>
        LET res == fcall.result IN
        IF fcall.seq.given
        THEN /\ Len(res) = Len(fcall.seq.v)
             /\ \A i \in Ids : Count(res, StarsNames[i]) = Count(fcall.seq.v, i)
             /\ \A j, k \in DOMAIN res :
                   j < k => \E a, b \in Ids :
                               a <= b /\ res[j] = StarsNames[a] /\ res[k] = StarsNames[b]
        ELSE LET a  == fcall.rang.v[1]
                 b  == fcall.rang.v[2]
                 lo == IF a <= b THEN a ELSE b
                 hi == IF a <= b THEN b ELSE a
             IN  /\ Len(res) = hi - lo + 1
                 /\ \A k \in DOMAIN res : res[k] = StarsNames[lo + k - 1]

\* a range given as 11 9 has selected stars9, stars10, stars11
C26_Witness ==
    /\ Returned("ida_names_by_seq_or_range")
    /\ ~fcall.seq.given
    /\ fcall.rang.v = <<11, 9>>
    /\ fcall.result = <<"stars9", "stars10", "stars11">>

-----------------------------------------------------------------------------
(* Download for a set of photometers: properties                            *)

\* the tasks of a photometer the loop has left that are still in flight
LeftFlying(k) == {m \in DOMAIN phot.left[k].task : phot.left[k].task[m] \in InFlight}

\* C21: photometers are downloaded in the order of the names; when the loop
\* has gone past a photometer, every wave of it has been created and every
\* task of it has ended, so that no fetches of two photometers are in flight
\* together.
C21_NoCrossEntityConcurrency ==
    /\ Len(phot.left) <= phot.i /\ phot.i <= Len(phot.left) + 1
    /\ phot.i <= Len(phot.names)
    /\ \A k \in DOMAIN phot.left :
          /\ phot.left[k].name = phot.names[k]
          /\ Len(phot.left[k].waves) = Len(Groups)
          /\ \A m \in DOMAIN phot.left[k].task :
                phot.left[k].task[m] \in {"done", "skipped"}
          /\ LeftFlying(k) = {}
    /\ phot.pc \in {"loop", "done"} => Flying = {} /\ phot.i = Len(phot.left)
    /\ phot.pc = "done" => phot.i = Len(phot.names)

\* the second photometer has fetches in flight after the first one's two
\* waves have ended
C21_Witness ==
    /\ phot.pc = "await"
    /\ phot.i = 2
    /\ Len(phot.left) = 1
    /\ Len(phot.left[1].waves) = 2
    /\ Flying # {}

-----------------------------------------------------------------------------
(* The pipeline of a single file: properties                                *)

\* C22: a run of the single pipeline whose GET was answered 404 ends
\* normally, with the store saved once, whether the raw file is there or not.
C22_SingleSoftSkip ==
    fetch.status = 404 /\ Ended => main.pc = "done" /\ main.saves = 1

-----------------------------------------------------------------------------
(* Header variants: properties                                              *)

\* the header of raw file p declares one channel and 8 columns, or four
\* channels and 17 columns
VariantOk(p) ==
    LET h == ContentTable[rawFS[p]] IN
    \/ h.channels = 1 /\ h.cols = 8
    \/ h.channels = 4 /\ h.cols = 17

C29_EphemerisColumns ==
    \A p \in Paths :
        ecsvFS[p] # NoFile =>
            LET zenital == ContentTable[ecsvFS[p].src].zenital
                columns == ecsvFS[p].columns
            IN  /\ {SUN_ALT, MOON_ALT, MOON_ILLUM} \subseteq columns
                /\ zenital # 0 => {SUN_AZ, MOON_AZ} \subseteq columns
                /\ zenital = 0 => {SUN_AZ, MOON_AZ} \cap columns = {}

\* an ECSV file of a photometer that points 10 degrees off the zenith has
\* been written
C29_Witness ==
    \E p \in Paths :
        /\ IsCall(p) /\ since[p].outcome = "written"
        /\ ContentTable[rawFS[p]].zenital = 10
        /\ SUN_AZ \in ecsvFS[p].columns

-----------------------------------------------------------------------------
(* File names: properties                                                   *)

\* the text of the months the calls are made with
MonthText(d) == IF d = RFirst THEN "2023-06" ELSE "2023-11"

\* the file name a call is about: the exact name, or <name>_<month>.dat
FileName ==
    IF fcall.exact.given THEN fcall.exact.v
    ELSE <<fcall.name, "_", MonthText(fcall.month.v), ".dat">>

\* a base directory as the claim reads it: the one given, under the current
\* directory if relative, and the current directory if none was given
Base(dir) ==
    IF ~dir.given THEN Cwd
    ELSE IF dir.v[1] = "/" THEN dir.v
    ELSE Cwd \o <<"/">> \o dir.v

Stem(filename) ==
    IF filename[Len(filename)] \in Extensions
    THEN SubSeq(filename, 1, Len(filename) - 1) ELSE filename

NamedAsStated ==
    LET res == fcall.result IN
    /\ res.exc = None
    /\ res.params = [path |-> <<"/", fcall.name>>, files |-> FileName]
    /\ res.file_path = Base(fcall.ida_base_dir) \o <<"/", fcall.name, "/">> \o FileName
    /\ res.in_path = res.file_path
    /\ Base(fcall.ida_base_dir) \o <<"/", fcall.name>> \in res.dirs
    /\ res.out_path = Base(fcall.ecsv_base_dir) \o <<"/", fcall.name, "/">>
                      \o Stem(FileName) \o <<".ecsv">>

\* C28 as stated: the file requested and written is <name>_<month>.dat, or
\* the exact name whatever it is; it is written to <base>/<name>/<file>, the
\* directory being made, and its ECSV file is <out>/<name>/<file less its
\* extension>.ecsv.
C28_FileNaming ==
    Returned("pipe_single") => NamedAsStated

\* C28 for the exact names that hold an underscore
C28_FileNamingUnderscore ==
    Returned("pipe_single")
    /\ (fcall.exact.given => \E k \in DOMAIN fcall.exact.v : fcall.exact.v[k] = "_")
    => NamedAsStated

\* the exact name stars1_2023-06_-1.dat was requested and written under a
\* directory that had to be made, and stars1_2023-06_-1.ecsv derived from it
C28_Witness ==
    /\ Returned("pipe_single")
    /\ fcall.exact = Arg(<<"stars1", "_", "2023-06", "_", "-1", ".dat">>)
    /\ fcall.dirs = {}
    /\ fcall.result.exc = None
    /\ fcall.result.params.files = fcall.exact.v
    /\ fcall.result.out_path =
          <<"/", "home", "/", "stars1", "/", "stars1", "_", "2023-06", "_", "-1", ".ecsv">>

-----------------------------------------------------------------------------
(* Photometers near a location: properties                                  *)

\* the metres from the query point of a call to a row of its listing
Metres(item) ==
    distance(<<item.longitude, item.latitude>>, <<fcall.lon, fcall.lat>>)

\* the names of the rows within the radius, in the order of the rows
RECURSIVE Near(_)
Near(rows) ==
    IF rows = <<>> THEN <<>>
    ELSE (IF Metres(Head(rows)) <= fcall.radius * 1000
          THEN <<Head(rows).name>> ELSE <<>>) \o Near(Tail(rows))

\* C24: the names returned are those of the rows of the directory listing
\* whose distance is at most radius * 1000 metres, in the order of the
\* listing: a row at exactly that distance is kept, one a metre further is not.
C24_DistanceFilterBoundary ==
    Returned("ida_names_by_location") =>
        LET rows == IF fcall.status = 404 THEN <<>> ELSE fcall.listing IN
        /\ fcall.result = Near(rows)
        /\ \A k \in DOMAIN rows :
              /\ Metres(rows[k]) = fcall.radius * 1000
                 => \E j \in DOMAIN fcall.result : fcall.result[j] = rows[k].name
              /\ Metres(rows[k]) = fcall.radius * 1000 + 1
                 => \A j \in DOMAIN fcall.result : fcall.result[j] # rows[k].name

\* with a radius of 1 km, of the photometers at 1001 m, at 1000 m and at the
\* point, listed in that order, the last two are returned in that order
C24_Witness ==
    /\ Returned("ida_names_by_location")
    /\ fcall.radius = 1
    /\ fcall.status = 200
    /\ Len(fcall.listing) = 3
    /\ Metres(fcall.listing[1]) = 1001
    /\ Metres(fcall.listing[2]) = 1000
    /\ Metres(fcall.listing[3]) = 0
    /\ fcall.result = <<fcall.listing[2].name, fcall.listing[3].name>>


-----------------------------------------------------------------------------
(* to_ecsv_range: the files it transforms                                   *)

\* the do_to_ecsv_single calls the to_ecsv_range call of the worker has made
RangeCalls ==
    LET of_worker(e) == e.path.name = worker.name
        calls == SelectSeq(log, of_worker)
    IN  [k \in DOMAIN calls |-> calls[k].path]

\* the raw files of the worker's photometer with a month from --since to
\* --until
RangeDue ==
    {p \in DOMAIN rawFS :
        p.name = worker.name /\ rawFS[p] # Missing /\ InRange(p.month)}

\* C25: a to_ecsv_range call that has ended has called do_to_ecsv_single on
\* exactly the raw files of its photometer with a month from --since to
\* --until, once each and in ascending order of file name, and on no other.
C25_RangeSelection ==
    worker.state \in {"returned", "raised"}
    => /\ Range(RangeCalls) = RangeDue
       /\ Len(RangeCalls) = Cardinality(RangeDue)
       /\ \A i, j \in DOMAIN RangeCalls :
             i < j => RangeCalls[i].month < RangeCalls[j].month


-----------------------------------------------------------------------------
(* The table of locations: properties                                       *)

\* the last command was fn, on name, and found a row of that name or none
LocCommand(fn, found) ==
    /\ fcall.fn = fn
    /\ (loc(fcall.table, fcall.name) # {}) = found

\* the value a field of a row has after an update with argument arg
Updated(arg, old) == IF arg.given THEN arg.v ELSE old

\* C27: the table of locations holds at most one row per photometer name
\* after any sequence of add, update and delete commands; an add of a name
\* the table holds, and an update or a delete of a name it does not hold,
\* leave the table as it was; an update of a name it holds changes, in the
\* row of that name only, the fields given on the command line and no other.
C27_LocationRecords ==
    /\ \A i, j \in DOMAIN locations :
          locations[i].phot_name = locations[j].phot_name => i = j
    /\ LocCommand("cli_location_add", TRUE) => locations = fcall.table
    /\ LocCommand("cli_location_update", FALSE) => locations = fcall.table
    /\ LocCommand("cli_location_delete", FALSE) => locations = fcall.table
    /\ LocCommand("cli_location_update", TRUE) =>
          /\ DOMAIN locations = DOMAIN fcall.table
          /\ \A k \in DOMAIN locations :
                LET old == fcall.table[k] IN
                IF old.phot_name # fcall.name THEN locations[k] = old
                ELSE locations[k] =
                        [phot_name |-> old.phot_name,
                         latitude  |-> Updated(fcall.latitude, old.latitude),
                         longitude |-> Updated(fcall.longitude, old.longitude),
                         height    |-> Updated(fcall.height, old.height)]

\* an update with --latitude alone of the second of two rows has changed its
\* latitude and left its height, which is not the default, and the first row
C27_Witness ==
    /\ LocCommand("cli_location_update", TRUE)
    /\ Len(fcall.table) = 2
    /\ fcall.table[2].phot_name = fcall.name
    /\ fcall.latitude.given /\ ~fcall.longitude.given /\ ~fcall.height.given
    /\ fcall.latitude.v # fcall.table[2].latitude
    /\ fcall.table[2].height # 0
    /\ locations[2].latitude = fcall.latitude.v
    /\ locations[2].height = fcall.table[2].height
    /\ locations[1] = fcall.table[1]


-----------------------------------------------------------------------------
(* The four-channel transform                                               *)

\* C31: a call that transforms a raw file whose header declares four channels
\* and 17 columns and holds a position ends with the ECSV file written, the
\* ephemeris columns in it, as a call on a one-channel file does.
C31_FourChannelTransform ==
    \A p \in Paths :
        /\ IsCall(p) /\ since[p].created
        /\ ContentTable[rawFS[p]].channels = 4
        /\ ContentTable[rawFS[p]].cols = 17
        /\ ContentTable[rawFS[p]].position
        => /\ since[p].outcome = "written"
           /\ ecsvFS[p] # NoFile
           /\ {SUN_ALT, MOON_ALT, MOON_ILLUM} \subseteq ecsvFS[p].columns


-----------------------------------------------------------------------------
(* What a do_to_ecsv_single call leaves alone                               *)

\* the rows of table ecsv_t of other files than p
OtherRows(rows, p) == {r \in rows : r[1] # basename(p)}

\* C32: a do_to_ecsv_single call on raw file p leaves the bytes of every raw
\* file, p among them, the rows of ecsv_t of every other file name and the
\* ECSV file of every other raw file as they were; a call that skips leaves
\* the whole of ecsv_t and every ECSV file as they were.
C32_TransformFrame ==
    [][\A p \in Paths, fix \in BOOLEAN :
          do_to_ecsv_single(p, fix) =>
              /\ rawFS' = rawFS
              /\ OtherRows(ecsv_t', p) = OtherRows(ecsv_t, p)
              /\ \A q \in Paths \ {p} : ecsvFS'[q] = ecsvFS[q]
              /\ since'[p].outcome = "skipped"
                 => ecsv_t' = ecsv_t /\ ecsvFS' = ecsvFS]_vars

\* a call has replaced the entry and the ECSV file of one raw file while
\* another raw file has an entry and an ECSV file
C32_Witness ==
    \E p \in Paths, q \in Paths :
        /\ p # q
        /\ IsCall(p) /\ since[p].op = "update" /\ since[p].outcome = "written"
        /\ RowsOf(basename(q)) # {}
        /\ ecsvFS[q] # NoFile


-----------------------------------------------------------------------------
(* The pipeline run twice: properties                                       *)

\* the second run has ended, and no download of it failed
SecondEnded == fcall.pc = "second" /\ Ended /\ main.exc # "ClientError"

\* what the second run did: its files downloaded again, no do_to_ecsv_single
\* call of it got as far as create_table, table ecsv_t and the ECSV files are
\* as the first run left them, and the combined files name the same files in
\* the same order
RunRepeated ==
    /\ ~run.skip => main.fetches = Len(run.names)
    /\ \A k \in DOMAIN log : log[k].outcome = "skipped"
    /\ ecsv_t = fcall.ecsv_t
    /\ ecsvFS = fcall.ecsvFS
    /\ transformed = fcall.transformed
    /\ \A n \in DOMAIN combFS : combFS[n].combined = fcall.combFS[n].combined

\* the first run returned without an exception
FirstRunClean == fcall.ended = "done" /\ fcall.exc = None

-----------------------------------------------------------------------------
(* Combined files: properties                                               *)

\* the combined files of the directory: those written under a default name
CombinedFiles ==
    {default_oname(CombName, s, u) : s \in CombDates, u \in CombDates} \cap fcall.dir

\* the monthly files of the directory with a month from --since to --until,
\* in ascending order of month
MonthlyInRange ==
    LET in_range(k) == /\ monthly_ecsv(CombName, CombMonths[k]) \in fcall.dir
                       /\ DateLeq(fcall.since, CombMonths[k])
                       /\ DateLeq(CombMonths[k], fcall.until)
        ks == SelectSeq([k \in DOMAIN CombMonths |-> k], in_range)
    IN  [j \in DOMAIN ks |-> monthly_ecsv(CombName, CombMonths[ks[j]])]

\* C34: whatever combined files of earlier calls lie in the directory under
\* their default names, a to_ecsv_combine call over any range lists none of
\* them: it lists the monthly files of the range, each once.
C34_CombinedNotReingested ==
    fcall.fn = "to_ecsv_combine" /\ fcall.calls > 0 =>
        /\ \A k \in DOMAIN fcall.result.combined :
              fcall.result.combined[k] \notin CombinedFiles
        /\ fcall.result.exc = None => fcall.result.combined = MonthlyInRange

\* a second or later call, over two months, has listed the two monthly files
\* while the directory holds combined files of two ranges, its own among them
C34_Witness ==
    /\ fcall.fn = "to_ecsv_combine" /\ fcall.calls = 2
    /\ Len(fcall.result.combined) = 2
    /\ Cardinality(CombinedFiles) >= 2
    /\ default_oname(CombName, fcall.since, fcall.until) \in CombinedFiles


-----------------------------------------------------------------------------
(* After a fetch has raised                                                 *)

\* a do_ida_single task of the download_ida_range call under way has raised
FetchRaised == \E m \in DOMAIN task : task[m] = "failed"

\* C35: once a fetch task of a photometer has raised, no later group of tasks
\* of that photometer is created, download_ida_range is called for no later
\* photometer, and the task that raised is not started again; once a download
\* of a pipeline run has raised, the run makes no further download, no
\* do_to_ecsv_single call and no to_ecsv_combine call.
C35_FatalFetchStops ==
    [][/\ FetchRaised =>
            /\ waves' = waves
            /\ phot'.i = phot.i
            /\ phot'.pc # "loop"
            /\ \A m \in DOMAIN task :
                  task[m] \in {"failed", "none"} => task'[m] = task[m]
       /\ main.exc = "ClientError" =>
            /\ main' = main
            /\ main.pc = "crashed"
            /\ log = <<>> /\ log' = log
            /\ worker' = NoThread /\ combiner' = NoCombiner
            /\ combFS' = combFS
            /\ ecsv_t' = ecsv_t /\ ecsvFS' = ecsvFS]_vars

\* a fetch of the first of two groups of the first of two photometers has
\* raised and the loop over the photometers has ended with it
C35_Witness ==
    /\ FetchRaised
    /\ phot.pc = "raised"
    /\ phot.i = 1 /\ Len(phot.names) = 2
    /\ Len(waves) = 1 /\ Len(Groups) = 2
    /\ \E m \in DOMAIN task : task[m] = "none"


-----------------------------------------------------------------------------
(* The position of a header: properties                                     *)

\* the token stands for no value: "none", "unknown" or nothing, in any case
\* of the letters, blanks around it aside
IsNoValue(token) == token \in NoneTokens

\* the token is a number
IsNumber(token) == token \in NumberTokens

\* what the claim says of a call: the fallback is entered exactly when the
\* condition holds; a height that stands for no value becomes 0 and does not
\* by itself lead to the fallback; with latitude and longitude resolved the
\* table of coordinates is not looked up
FallbackWhen(condition) ==
    /\ fcall.result.fallback <=> condition
    /\ /\ IsNumber(fcall.latitude) /\ IsNumber(fcall.longitude)
       /\ IsNoValue(fcall.height)
       => /\ ~fcall.result.fallback
          /\ fcall.result.exc = None
          /\ fcall.result.position.height = 0
    /\ ~IsNoValue(fcall.latitude) /\ ~IsNoValue(fcall.longitude)
       => ~fcall.result.lookup

\* C36 as stated: the fallback is entered if and only if the latitude or the
\* longitude token stands for no value.
C36_FallbackTrigger ==
    Returned("header_position") =>
        FallbackWhen(IsNoValue(fcall.latitude) \/ IsNoValue(fcall.longitude))

\* C36, amended: the fallback is entered if and only if the latitude token
\* stands for no value, or the longitude token does and the latitude token is
\* a number; a latitude token that is neither raises ValueError before the
\* longitude is looked at.
C36_FallbackTriggerInOrder ==
    Returned("header_position") =>
        FallbackWhen(\/ IsNoValue(fcall.latitude)
                     \/ IsNumber(fcall.latitude) /\ IsNoValue(fcall.longitude))

\* the longitude reads " none ", the latitude is a number, --fix is given and
\* the table has a row: the position is the row's
C36_Witness ==
    /\ Returned("header_position")
    /\ IsNumber(fcall.latitude)
    /\ fcall.longitude = <<" ", "n", "o", "n", "e", " ">>
    /\ fcall.fix /\ fcall.coords # NoRow
    /\ fcall.result.fallback /\ fcall.result.lookup
    /\ fcall.result.position = coords_position(fcall.coords)


-----------------------------------------------------------------------------
(* The directory of a photometer: properties                                *)

\* the tasks of a group that are in makedirs or mkdir
InMkdir == {"mkdir", "exists", "create"}

\* no task raises while it makes the directory, and a task that comes out of
\* it has the directory
DirectoryObtained ==
    \A m \in DOMAIN task :
        task[m] \in InMkdir
        => /\ task'[m] # "failed"
           /\ task'[m] = "open" => dirIsDir'

\* the months of a group, and so the files its tasks write, are different,
\* and a task that has ended on a file of the server has written it where
\* the directory is
OwnFiles ==
    /\ \A w \in DOMAIN waves :
          \A i, j \in DOMAIN waves[w] : i # j => waves[w][i] # waves[w][j]
    /\ \A m \in DOMAIN task :
          task[m] = "done" => dirIsDir /\ idaFS[m] = Body(status[m])

\* C37: with makedirs of utils/utils.py, whichever task of a group makes the
\* directory first, every task of the group whose request is answered
\* obtains the directory and writes the file of its own month; a task that
\* finds the directory made by another does not raise.
C37_MakedirsConcurrent == [][DirectoryObtained]_vars /\ []OwnFiles

\* a task has found the directory made by another task of its group, which
\* is writing its file by now: mkdir has raised FileExistsError in it
C37_Witness ==
    \E m, n \in DOMAIN task :
        /\ m # n
        /\ task[m] = "exists"
        /\ task[n] \in {"write", "done"}
        /\ \E w \in DOMAIN waves : {m, n} \subseteq Range(waves[w])

\* C38: with mkdir of main.py, whichever way the tasks of a group take their
\* turns, every task whose request is answered obtains the directory; none
\* raises while it makes it.
C38_LegacyMkdirRace == [][DirectoryObtained]_vars

====
